---------------------------- MODULE Spec2Model ----------------------------
(***************************************************************************)
(* Model of the piksels runtime layer: the cached pipeline variable        *)
(* (piksels-core/src/cache.rs, Cached<T>), the unit allocator              *)
(* (piksels-core/src/units.rs, Units), the staged layer builder            *)
(* (piksels-core/src/layers.rs, piksels/src/layers.rs), the Device with    *)
(* its cache of scarce resources and the resource wrappers, alone and      *)
(* shared by threads (device.rs, cache.rs, texture.rs, ...), and the views *)
(* of a vertex array (vertex_array.rs).                                    *)
(*                                                                         *)
(* Option<T> is modelled as a sequence: <<>> is None, <<x>> is Some(x).    *)
(***************************************************************************)
EXTENDS Integers, Sequences, FiniteSets, TLC

(* ------------------------------ bounds --------------------------------- *)
NumValues == 2      \* distinct values of one pipeline variable
MaxUnits  == 2      \* largest backend-reported max_units explored
NumRes    == 2      \* distinct scarce indices (textures / uniform buffers)
MaxCalls  == 4      \* get_unit() calls recorded for one allocator
HistLen   == 2      \* operations on one Cached remembered
MaxObjs   == 2      \* backend objects created through one Device
MaxDepth  == 3      \* scopes opened in one Layer<B, T> session
MaxVertices == 4    \* largest vertex count and range bound explored
UsizeBits == 3      \* width of usize in the model (2^UsizeBits > MaxVertices + 1)
NumThreads == 2     \* threads sharing one Device

Values        == 1..NumValues
ScarceIndices == 1..NumRes
UnitValues    == 0..(MaxUnits - 1)
Threads       == 1..NumThreads

VARIABLES
  \* ---- one Cached<T> pipeline variable and the device behind it
  cached,        \* Cached.0 : <<>> or <<v>>
  device,        \* value last applied successfully on the device (<<>>: unknown)
  hist,          \* the last HistLen operations on the Cached, oldest first
  setUsed,       \* Cached::set has been called
  \* ---- one stand-alone Units allocator
  units,         \* [next_unit, max_units, idle_units]
  results,       \* outcomes of the get_unit() calls, oldest first
  idleCalled,    \* Units::idle has been called
  lastIdled,     \* unit -> annotation of the most recent idle(unit, _)
  \* ---- one layer session over one command buffer (piksels-core layers.rs)
  layer,                 \* type of the current builder value
  parent,                \* Parent of the current GroupLayer ("-" outside a group)
  texture_units,         \* Units of the texture units
  uniform_buffer_units,  \* Units of the uniform-buffer units
  in_use,                \* GroupLayer.in_use (GroupLayerInUse)
  in_use_stack,          \* in_use_stack: Vec<GroupLayerInUse>
  lastOp,                \* the last builder operation and what it issued
  rtOpen,                \* bind-render-targets succeeded and was not left by done()
  shOpen,                \* bind-shader succeeded and was not left by done()
  fullGroupClosed,       \* a group that bound max_units textures was closed
  finished,              \* cmd_buf_finish succeeded
  \* ---- one Device, its cache and the resource wrappers (device.rs, cache.rs)
  cacheAlive,    \* the Device (the only strong owner of the cache) is alive
  poisoned,      \* the cache mutex is poisoned
  cmdBufImpl,    \* which CmdBuf wrapper is built: "cmd_buf.rs" or "pipeline.rs"
  tracked,       \* kind -> scarce indices in the cache map of that kind
  okind,         \* object -> kind ("-": not created yet)
  wrapper,       \* object -> "none" / "alive" / "dropped"
  fromSwapChain, \* objects obtained through SwapChain::render_targets
  dropCtx,       \* object -> cache state when its wrapper was torn down
  tracks,        \* object -> number of track calls
  untracks,      \* object -> number of untrack calls
  destroys,      \* object -> number of backend destructor calls
  teardown,      \* object -> destructor calls made by the cache teardown
  qcache,        \* query -> Option of the stored value
  qcalls,        \* query -> successful backend calls (counted up to 2)
  lastDev,       \* the last Device / wrapper operation
  \* ---- one Layer<B, T> session (piksels/src/layers.rs); it shares the pools,
  \* in_use, in_use_stack and lastOp with the session above
  tag,           \* the type parameter T, outermost constructor first
  unused_stack,  \* cleared in-use records kept for reuse
  \* ---- one VertexArray and the last view taken of it (vertex_array.rs)
  vertex_array,  \* [vertex_count]
  view,          \* the range passed to view() and the VertexArrayView returned
  \* ---- threads sharing the Device: calls in progress on the cache mutex
  pc,            \* thread -> where it is in the call it runs ("idle": none)
  lock,          \* holder of the cache mutex (0: free)
  local          \* thread -> locals and result of its call

cachedVars == <<cached, device, hist, setUsed>>
unitsVars  == <<units, results, idleCalled, lastIdled>>
layerVars  == <<layer, parent, texture_units, uniform_buffer_units, in_use,
                in_use_stack, lastOp, rtOpen, shOpen, fullGroupClosed, finished>>
devVars    == <<cacheAlive, poisoned, cmdBufImpl, tracked, okind, wrapper,
                fromSwapChain, dropCtx, tracks, untracks, destroys, teardown,
                qcache, qcalls, lastDev>>
nestVars   == <<tag, unused_stack>>
viewVars   == <<vertex_array, view>>
threadVars == <<pc, lock, local>>
extVars    == <<viewVars, threadVars>>
restVars   == <<devVars, nestVars, extVars>>
vars       == <<cached, device, hist, setUsed, units, results, idleCalled, lastIdled,
                layer, parent, texture_units, uniform_buffer_units, in_use,
                in_use_stack, lastOp, rtOpen, shOpen, fullGroupClosed, finished,
                cacheAlive, poisoned, cmdBufImpl, tracked, okind, wrapper,
                fromSwapChain, dropCtx, tracks, untracks, destroys, teardown,
                qcache, qcalls, lastDev, tag, unused_stack,
                vertex_array, view, pc, lock, local>>

(* ------------------------------ helpers -------------------------------- *)
None == <<>>
Some(x) == <<x>>

Push(h, r) == IF Len(h) < HistLen THEN Append(h, r) ELSE Append(Tail(h), r)

(* ======================================================================= *)
(* Cached<T>                                                               *)
(* ======================================================================= *)

\* Cached::default
CachedDefault == None

\* mutant: invalidate leaves the cached value in place
invalidate_keep(c) == c

\* Cached::invalidate
invalidate(c) == None

\* Cached::set: replaces the value, returns the old one
set(c, value) == [cache |-> Some(value), ret |-> c]

\* mutant: the value is never stored
set_if_invalid_nostore(c, value, fok) ==
  IF c # None /\ c[1] = value
    THEN [cache |-> c, called |-> FALSE, ret |-> "Ok(false)"]
    ELSE [cache |-> c, called |-> TRUE,
          ret |-> IF fok THEN "Ok(true)" ELSE "Err"]

\* mutant: the comparison with the cached value is dropped
set_if_invalid_always(c, value, fok) ==
  [cache |-> Some(value), called |-> TRUE,
   ret |-> IF fok THEN "Ok(true)" ELSE "Err"]

\* Cached::set_if_invalid(value, f); fok: whether f() returns Ok.
\* The value is stored first, then f is called and its result mapped.
set_if_invalid(c, value, fok) ==
  IF c # None /\ c[1] = value
    THEN [cache |-> c, called |-> FALSE, ret |-> "Ok(false)"]
    ELSE [cache |-> Some(value), called |-> TRUE,
          ret |-> IF fok THEN "Ok(true)" ELSE "Err"]

\* Cached::is_invalid
is_invalid(c, new_val) == IF c # None THEN c[1] # new_val ELSE TRUE

InitCachedVars ==
  /\ cached = CachedDefault
  /\ device = None
  /\ hist = <<>>
  /\ setUsed = FALSE

SetIfInvalid ==
  \E v \in Values, fok \in BOOLEAN :
    LET r == set_if_invalid(cached, v, fok) IN
      /\ cached' = r.cache
      /\ device' = IF r.called /\ fok THEN Some(v) ELSE device
      /\ hist' = Push(hist, [op |-> "set_if_invalid", value |-> v, pre |-> cached,
                             post |-> r.cache, called |-> r.called, fok |-> fok,
                             ret |-> r.ret])
      /\ UNCHANGED setUsed
      /\ UNCHANGED unitsVars
      /\ UNCHANGED layerVars
      /\ UNCHANGED restVars

Invalidate ==
  /\ cached' = invalidate(cached)
  /\ hist' = Push(hist, [op |-> "invalidate", value |-> 0, pre |-> cached,
                         post |-> invalidate(cached), called |-> FALSE,
                         fok |-> TRUE, ret |-> "()"])
  /\ UNCHANGED <<device, setUsed>>
  /\ UNCHANGED unitsVars
  /\ UNCHANGED layerVars
  /\ UNCHANGED restVars

Set ==
  \E v \in Values :
    /\ cached' = set(cached, v).cache
    /\ hist' = Push(hist, [op |-> "set", value |-> v, pre |-> cached,
                           post |-> set(cached, v).cache, called |-> FALSE,
                           fok |-> TRUE, ret |-> "old"])
    /\ setUsed' = TRUE
    /\ UNCHANGED device
    /\ UNCHANGED unitsVars
    /\ UNCHANGED layerVars
    /\ UNCHANGED restVars

(* ======================================================================= *)
(* Units                                                                   *)
(* ======================================================================= *)

NoEntry == [unit |-> 0, current_scarce_index |-> None]

\* remove key k of function f
Without(f, k) == [x \in (DOMAIN f) \ {k} |-> f[x]]
\* insert or overwrite key k of function f
With(f, k, v) == [x \in (DOMAIN f) \cup {k} |-> IF x = k THEN v ELSE f[x]]

EmptyMap == [x \in {} |-> 0]

\* Units::new
UnitsNew(max_unit) ==
  [next_unit |-> 0, max_units |-> max_unit, idle_units |-> EmptyMap]

\* mutant: the reused slot stays in the idle map
reuse_unit_keep(U) ==
  { [ok |-> TRUE,
     units |-> U,
     entry |-> [unit |-> u, current_scarce_index |-> Some(U.idle_units[u])]]
      : u \in DOMAIN U.idle_units }

\* mutant: the annotation of the idle slot is dropped on reuse
reuse_unit_forget(U) ==
  { [ok |-> TRUE,
     units |-> [U EXCEPT !.idle_units = Without(U.idle_units, u)],
     entry |-> [unit |-> u, current_scarce_index |-> None]]
      : u \in DOMAIN U.idle_units }

\* Units::reuse_unit: the possible outcomes; the key taken is the first of a
\* HashMap iteration, i.e. any key of the idle map. Empty set: None.
reuse_unit(U) ==
  { [ok |-> TRUE,
     units |-> [U EXCEPT !.idle_units = Without(U.idle_units, u)],
     entry |-> [unit |-> u, current_scarce_index |-> Some(U.idle_units[u])]]
      : u \in DOMAIN U.idle_units }

\* mutant: an exhausted pool fails without looking at the idle map
get_unit_noreuse(U) ==
  IF U.next_unit < U.max_units
    THEN { [ok |-> TRUE,
            units |-> [U EXCEPT !.next_unit = @ + 1],
            entry |-> [unit |-> U.next_unit, current_scarce_index |-> None]] }
    ELSE { [ok |-> FALSE, units |-> U, entry |-> NoEntry] }

\* mutant: the fresh-unit counter is not advanced
get_unit_stuck(U) ==
  IF U.next_unit < U.max_units
    THEN { [ok |-> TRUE, units |-> U,
            entry |-> [unit |-> U.next_unit, current_scarce_index |-> None]] }
    ELSE IF reuse_unit(U) # {}
           THEN reuse_unit(U)
           ELSE { [ok |-> FALSE, units |-> U, entry |-> NoEntry] }

\* Units::get_unit: the possible outcomes; ok = FALSE is Err(NoMoreUnits)
get_unit(U) ==
  IF U.next_unit < U.max_units
    THEN { [ok |-> TRUE,
            units |-> [U EXCEPT !.next_unit = @ + 1],
            entry |-> [unit |-> U.next_unit, current_scarce_index |-> None]] }
    ELSE IF reuse_unit(U) # {}
           THEN reuse_unit(U)
           ELSE { [ok |-> FALSE, units |-> U, entry |-> NoEntry] }

\* mutant: marking a unit idle forgets the other idle units
idle_clobber(U, unit, scarce_index) ==
  [U EXCEPT !.idle_units = With(EmptyMap, unit, scarce_index)]

\* Units::idle
idle(U, unit, scarce_index) ==
  [U EXCEPT !.idle_units = With(U.idle_units, unit, scarce_index)]

\* Units::in_use (the name in_use is taken by the GroupLayer field)
units_in_use(U, unit) ==
  [U EXCEPT !.idle_units = Without(U.idle_units, unit)]

\* the pools with limit N that new, get_unit and idle (of units handed out)
\* can produce: n units handed out, any of them idle with any annotation
UnitsStates(N) ==
  UNION { UNION { { [next_unit |-> n, max_units |-> N, idle_units |-> f] :
                      f \in [D -> ScarceIndices] } : D \in SUBSET (0..(n - 1)) }
            : n \in 0..N }

InitUnitsVars ==
  /\ units = UnitsNew(0)
  /\ results = <<>>
  /\ idleCalled = FALSE
  /\ lastIdled = [u \in UnitValues |-> None]

GetUnit ==
  /\ Len(results) < MaxCalls
  /\ \E r \in get_unit(units) :
       /\ units' = r.units
       /\ results' = Append(results,
                        [ok |-> r.ok, entry |-> r.entry,
                         exhausted |-> ~(units.next_unit < units.max_units),
                         annot |-> IF r.ok THEN lastIdled[r.entry.unit] ELSE None])
  /\ UNCHANGED <<idleCalled, lastIdled>>
  /\ UNCHANGED cachedVars
  /\ UNCHANGED layerVars
  /\ UNCHANGED restVars

\* idle(unit, scarce_index) for a unit that get_unit() has handed out
Idle ==
  \E u \in UnitValues, i \in ScarceIndices :
    /\ u < units.next_unit
    /\ units' = idle(units, u, i)
    /\ idleCalled' = TRUE
    /\ lastIdled' = [lastIdled EXCEPT ![u] = Some(i)]
    /\ UNCHANGED results
    /\ UNCHANGED cachedVars
    /\ UNCHANGED layerVars
    /\ UNCHANGED restVars

InUse ==
  \E u \in UnitValues :
    /\ u < units.next_unit
    /\ units' = units_in_use(units, u)
    /\ UNCHANGED <<results, idleCalled, lastIdled>>
    /\ UNCHANGED cachedVars
    /\ UNCHANGED layerVars
    /\ UNCHANGED restVars


(* ======================================================================= *)
(* Layers (piksels-core/src/layers.rs)                                     *)
(* ======================================================================= *)

Stages == {"Layers", "RenderTargetsLayer", "ShaderLayer"}

Setters == {"blending", "depth_test", "depth_write", "stencil_test", "face_culling",
            "viewport", "scissor", "clear_color", "clear_depth", "srgb"}

\* GroupLayerInUse::default
InUseDefault == [textures |-> <<>>, uniform_buffers |-> <<>>]

\* the units of a list of unit entries
UnitsOf(entries) == { entries[k].unit : k \in 1..Len(entries) }

\* mutant: a shader can be bound on the top layer
HasShader_top(l) == l \in {"Layers", "RenderTargetsLayer"}

\* the layer type that has shader(): impl RenderTargetsLayer
HasShader(l) == l = "RenderTargetsLayer"

\* mutant: draw / set_uniform exist while only render targets are bound
HasDraw_early(l) == l \in {"RenderTargetsLayer", "ShaderLayer"}

\* the layer type that has set_uniform() and draw(): impl ShaderLayer
HasDraw(l) == l = "ShaderLayer"

\* mutant: the finishing done() exists on every stage
HasRenderTargets_any(l) == l \in {"Layers", "RenderTargetsLayer", "ShaderLayer"}

\* the layer type that has render_targets() and the finishing done(): impl Layers
HasRenderTargets(l) == l = "Layers"

\* the layer types that implement LayerCommons (setters, group())
HasCommons(l) == l \in Stages

\* mutant: only the textures list is cleared
InUseCleared_texturesOnly(rec) ==
  [textures |-> <<>>, uniform_buffers |-> rec.uniform_buffers]

\* mark_idle_and_clear, the record it leaves: textures.clear() and
\* uniform_buffers.clear()
InUseCleared(rec) ==
  [textures |-> SubSeq(rec.textures, 1, 0),
   uniform_buffers |-> SubSeq(rec.uniform_buffers, 1, 0)]

\* mark_textures_idle / mark_uniform_buffers_idle: idle() for every recorded
\* entry whose current_scarce_index is Some
RECURSIVE mark_idle(_, _)
mark_idle(U, entries) ==
  IF entries = <<>>
    THEN U
    ELSE LET ubp == Head(entries) IN
           mark_idle(IF ubp.current_scarce_index # None
                       THEN idle(U, ubp.unit, ubp.current_scarce_index[1])
                       ELSE U,
                     Tail(entries))

\* the record of one builder operation
Op(op, ret, cmd, arg, unit, released) ==
  [op |-> op, ret |-> ret, cmd |-> cmd, arg |-> arg, unit |-> unit,
   released |-> released,
   layer |-> layer, parent |-> parent, rtOpen |-> rtOpen, shOpen |-> shOpen,
   fullGroupClosed |-> fullGroupClosed, repeat |-> FALSE]

Ret(fok) == IF fok THEN "Ok" ELSE "Err(backend)"

\* mutant: the next stage is entered whatever the backend answered
StageAfter_anyway(fok, next) == next

\* `B::cmd_buf_*(..)?; Ok(next)` on a layer taken by value: the next stage if
\* the command succeeded, otherwise the layer is gone with the error
StageAfter(fok, next) == IF fok THEN next ELSE "Dropped"

NoOp == [op |-> "from_cmd_buf", ret |-> "Ok", cmd |-> "-", arg |-> 0, unit |-> None,
         released |-> <<>>,
         layer |-> "-", parent |-> "-", rtOpen |-> FALSE, shOpen |-> FALSE,
         fullGroupClosed |-> FALSE, repeat |-> FALSE]

\* Layers::from_cmd_buf
InitLayerVars(max_texture_units, max_uniform_buffer_units) ==
  /\ layer = "Layers"
  /\ parent = "-"
  /\ texture_units = UnitsNew(max_texture_units)
  /\ uniform_buffer_units = UnitsNew(max_uniform_buffer_units)
  /\ in_use = InUseDefault
  /\ in_use_stack = <<>>
  /\ lastOp = NoOp
  /\ rtOpen = FALSE
  /\ shOpen = FALSE
  /\ fullGroupClosed = FALSE
  /\ finished = FALSE

\* <Layers as ChangeLayer>::change_layer: a top layer over the given pools
LayersChangeLayer(tu, ubu, stack) ==
  /\ layer = "Layers"
  /\ parent = "-"
  /\ texture_units = tu
  /\ uniform_buffer_units = ubu
  /\ in_use = InUseDefault
  /\ in_use_stack = stack
  /\ lastOp = NoOp
  /\ rtOpen = FALSE
  /\ shOpen = FALSE
  /\ fullGroupClosed = FALSE
  /\ finished = FALSE

otherVars == <<cached, device, hist, setUsed, units, results, idleCalled, lastIdled>>
allocVars == <<texture_units, uniform_buffer_units, in_use, in_use_stack>>

\* Layers::render_targets
LayersRenderTargets ==
  \E rt \in ScarceIndices, fok \in BOOLEAN :
    /\ HasRenderTargets(layer)
    /\ lastOp' = Op("render_targets", Ret(fok), "bind_render_targets", rt, None, <<>>)
    /\ layer' = StageAfter(fok, "RenderTargetsLayer")
    /\ rtOpen' = (rtOpen \/ fok)
    /\ UNCHANGED <<parent, shOpen, fullGroupClosed, finished>>
    /\ UNCHANGED allocVars
    /\ UNCHANGED otherVars
    /\ UNCHANGED restVars

\* Layers::done(&self): finishes the command buffer; the value is not consumed
LayersDone ==
  \E fok \in BOOLEAN :
    /\ HasRenderTargets(layer)
    /\ lastOp' = Op("done", Ret(fok), "finish", 0, None, <<>>)
    /\ finished' = (finished \/ fok)
    /\ UNCHANGED <<layer, parent, rtOpen, shOpen, fullGroupClosed>>
    /\ UNCHANGED allocVars
    /\ UNCHANGED otherVars
    /\ UNCHANGED restVars

\* RenderTargetsLayer::shader
RenderTargetsLayerShader ==
  \E sh \in ScarceIndices, fok \in BOOLEAN :
    /\ HasShader(layer)
    /\ lastOp' = Op("shader", Ret(fok), "bind_shader", sh, None, <<>>)
    /\ layer' = StageAfter(fok, "ShaderLayer")
    /\ shOpen' = (shOpen \/ fok)
    /\ UNCHANGED <<parent, rtOpen, fullGroupClosed, finished>>
    /\ UNCHANGED allocVars
    /\ UNCHANGED otherVars
    /\ UNCHANGED restVars

\* RenderTargetsLayer::done
RenderTargetsLayerDone ==
  /\ layer = "RenderTargetsLayer"
  /\ lastOp' = Op("done", "Ok", "-", 0, None, <<>>)
  /\ layer' = "Layers"
  /\ rtOpen' = FALSE
  /\ UNCHANGED <<parent, shOpen, fullGroupClosed, finished>>
  /\ UNCHANGED allocVars
  /\ UNCHANGED otherVars
  /\ UNCHANGED restVars

\* ShaderLayer::set_uniform
ShaderLayerSetUniform ==
  \E u \in ScarceIndices, fok \in BOOLEAN :
    /\ HasDraw(layer)
    /\ lastOp' = Op("set_uniform", Ret(fok), "set_uniform", u, None, <<>>)
    /\ layer' = StageAfter(fok, layer)
    /\ UNCHANGED <<parent, rtOpen, shOpen, fullGroupClosed, finished>>
    /\ UNCHANGED allocVars
    /\ UNCHANGED otherVars
    /\ UNCHANGED restVars

\* ShaderLayer::draw
ShaderLayerDraw ==
  \E va \in ScarceIndices, fok \in BOOLEAN :
    /\ HasDraw(layer)
    /\ lastOp' = Op("draw", Ret(fok), "draw_vertex_array", va, None, <<>>)
    /\ layer' = StageAfter(fok, layer)
    /\ UNCHANGED <<parent, rtOpen, shOpen, fullGroupClosed, finished>>
    /\ UNCHANGED allocVars
    /\ UNCHANGED otherVars
    /\ UNCHANGED restVars

\* mutant: leaving the shader stage goes back to the top
ShaderLayerDone_toTop ==
  /\ layer = "ShaderLayer"
  /\ lastOp' = Op("done", "Ok", "-", 0, None, <<>>)
  /\ layer' = "Layers"
  /\ shOpen' = FALSE
  /\ UNCHANGED <<parent, rtOpen, fullGroupClosed, finished>>
  /\ UNCHANGED allocVars
  /\ UNCHANGED otherVars
  /\ UNCHANGED restVars

\* ShaderLayer::done
ShaderLayerDone ==
  /\ layer = "ShaderLayer"
  /\ lastOp' = Op("done", "Ok", "-", 0, None, <<>>)
  /\ layer' = "RenderTargetsLayer"
  /\ shOpen' = FALSE
  /\ UNCHANGED <<parent, rtOpen, fullGroupClosed, finished>>
  /\ UNCHANGED allocVars
  /\ UNCHANGED otherVars
  /\ UNCHANGED restVars

\* LayerCommons::blending .. srgb: the backend command is issued directly
Setter ==
  \E name \in Setters, v \in Values, fok \in BOOLEAN :
    /\ HasCommons(layer)
    /\ lastOp' = [Op(name, Ret(fok), name, v, None, <<>>) EXCEPT
                     !.repeat = (lastOp.op = name /\ lastOp.arg = v /\
                                 lastOp.ret = "Ok")]
    /\ layer' = StageAfter(fok, layer)
    /\ UNCHANGED <<parent, rtOpen, shOpen, fullGroupClosed, finished>>
    /\ UNCHANGED allocVars
    /\ UNCHANGED otherVars
    /\ UNCHANGED restVars

\* LayerCommons::group -> GroupLayer::change_layer: the in-use record is popped
\* from the stack (or a default one is made)
Group ==
  /\ HasCommons(layer)
  /\ lastOp' = Op("group", "Ok", "-", 0, None, <<>>)
  /\ layer' = "GroupLayer"
  /\ parent' = layer
  /\ in_use' = IF in_use_stack # <<>> THEN in_use_stack[Len(in_use_stack)]
                                      ELSE InUseDefault
  /\ in_use_stack' = IF in_use_stack # <<>>
                       THEN SubSeq(in_use_stack, 1, Len(in_use_stack) - 1)
                       ELSE in_use_stack
  /\ UNCHANGED <<texture_units, uniform_buffer_units>>
  /\ UNCHANGED <<rtOpen, shOpen, fullGroupClosed, finished>>
  /\ UNCHANGED otherVars
  /\ UNCHANGED restVars

\* GroupLayer::texture
GroupLayerTexture ==
  \E t \in ScarceIndices, fok \in BOOLEAN :
    /\ layer = "GroupLayer"
    /\ \E r \in get_unit(texture_units) :
         IF ~r.ok
           THEN /\ lastOp' = Op("texture", "Err(NoMoreUnits)", "-", t, None, <<>>)
                /\ layer' = "Dropped"
                /\ UNCHANGED <<texture_units, in_use>>
           ELSE /\ lastOp' = Op("texture", Ret(fok), "bind_texture", t,
                                Some(r.entry.unit), <<>>)
                /\ texture_units' = r.units
                /\ layer' = StageAfter(fok, layer)
                /\ in_use' = IF fok
                               THEN [in_use EXCEPT !.textures = Append(@, r.entry)]
                               ELSE in_use
    /\ UNCHANGED <<parent, uniform_buffer_units, in_use_stack>>
    /\ UNCHANGED <<rtOpen, shOpen, fullGroupClosed, finished>>
    /\ UNCHANGED otherVars
    /\ UNCHANGED restVars

\* mutant: uniform buffers are given their units by the texture pool
GroupLayerUniformBuffer_texturePool ==
  \E ub \in ScarceIndices, fok \in BOOLEAN :
    /\ layer = "GroupLayer"
    /\ \E r \in get_unit(texture_units) :
         IF ~r.ok
           THEN /\ lastOp' = Op("uniform_buffer", "Err(NoMoreUnits)", "-", ub, None, <<>>)
                /\ layer' = "Dropped"
                /\ UNCHANGED <<texture_units, in_use>>
           ELSE /\ lastOp' = Op("uniform_buffer", Ret(fok), "bind_uniform_buffer", ub,
                                Some(r.entry.unit), <<>>)
                /\ texture_units' = r.units
                /\ layer' = StageAfter(fok, layer)
                /\ in_use' = IF fok
                               THEN [in_use EXCEPT !.uniform_buffers = Append(@, r.entry)]
                               ELSE in_use
    /\ UNCHANGED <<parent, uniform_buffer_units, in_use_stack>>
    /\ UNCHANGED <<rtOpen, shOpen, fullGroupClosed, finished>>
    /\ UNCHANGED otherVars
    /\ UNCHANGED restVars

\* GroupLayer::uniform_buffer
GroupLayerUniformBuffer ==
  \E ub \in ScarceIndices, fok \in BOOLEAN :
    /\ layer = "GroupLayer"
    /\ \E r \in get_unit(uniform_buffer_units) :
         IF ~r.ok
           THEN /\ lastOp' = Op("uniform_buffer", "Err(NoMoreUnits)", "-", ub, None, <<>>)
                /\ layer' = "Dropped"
                /\ UNCHANGED <<uniform_buffer_units, in_use>>
           ELSE /\ lastOp' = Op("uniform_buffer", Ret(fok), "bind_uniform_buffer", ub,
                                Some(r.entry.unit), <<>>)
                /\ uniform_buffer_units' = r.units
                /\ layer' = StageAfter(fok, layer)
                /\ in_use' = IF fok
                               THEN [in_use EXCEPT !.uniform_buffers = Append(@, r.entry)]
                               ELSE in_use
    /\ UNCHANGED <<parent, texture_units, in_use_stack>>
    /\ UNCHANGED <<rtOpen, shOpen, fullGroupClosed, finished>>
    /\ UNCHANGED otherVars
    /\ UNCHANGED restVars

\* GroupLayer::done: mark_idle_and_clear, push the cleared record, back to Parent
GroupLayerDone ==
  /\ layer = "GroupLayer"
  /\ lastOp' = Op("group_done", "Ok", "-", 0, None, in_use.textures)
  /\ texture_units' = mark_idle(texture_units, in_use.textures)
  /\ uniform_buffer_units' = mark_idle(uniform_buffer_units, in_use.uniform_buffers)
  /\ in_use_stack' = Append(in_use_stack, InUseCleared(in_use))
  /\ in_use' = InUseDefault
  /\ layer' = parent
  /\ parent' = "-"
  /\ fullGroupClosed' =
       (fullGroupClosed \/
          (/\ texture_units.max_units >= 1
           /\ Len(in_use.textures) = texture_units.max_units
           /\ UnitsOf(in_use.textures) = 0..(texture_units.max_units - 1)))
  /\ UNCHANGED <<rtOpen, shOpen, finished>>
  /\ UNCHANGED otherVars
  /\ UNCHANGED restVars

(* ======================================================================= *)
(* Layer<B, T> (piksels/src/layers.rs)                                     *)
(* ======================================================================= *)

\* The type parameter T as a sequence, outermost constructor first:
\*   ()                        <<>>
\*   Parent<Layer<B, T>, ()>   <<"Parent">> \o T
\*   Layer<B, T>               <<"Layer">> \o T
\* <<"Dropped">>: the value was consumed by a call that returned an error.
TagAlive(T) == IF T = <<>> THEN TRUE ELSE T[1] # "Dropped"

\* impl Layer<B, Parent<P, T>>: the layers that have done()
HasDone(T) == IF T = <<>> THEN FALSE ELSE T[1] = "Parent"

\* Layer<B, ()>::from_cmd_buf
InitNestVars ==
  /\ tag = <<>>
  /\ unused_stack = <<>>

sessVars == <<layer, parent, rtOpen, shOpen, fullGroupClosed, finished>>

\* mutant: a default record is used whatever the stack holds
PopOrDefault_default(stack) == InUseDefault

\* Vec::pop().unwrap_or_default() on a stack of in-use records
PopOrDefault(stack) == IF stack # <<>> THEN stack[Len(stack)] ELSE InUseDefault
PopRest(stack) == IF stack # <<>> THEN SubSeq(stack, 1, Len(stack) - 1) ELSE stack

\* Layer::group -> deeper: the current record goes on in_use_stack, the new
\* scope takes a record from unused_stack (or a default one)
LayerGroup ==
  /\ TagAlive(tag)
  /\ Len(tag) < MaxDepth
  /\ lastOp' = Op("group", "Ok", "-", 0, None, <<>>)
  /\ in_use' = PopOrDefault(unused_stack)
  /\ unused_stack' = PopRest(unused_stack)
  /\ in_use_stack' = Append(in_use_stack, in_use)
  /\ tag' = <<"Parent">> \o tag
  /\ UNCHANGED <<texture_units, uniform_buffer_units>>
  /\ UNCHANGED sessVars
  /\ UNCHANGED extVars
  /\ UNCHANGED otherVars
  /\ UNCHANGED devVars

\* Layer::texture
LayerTexture ==
  \E t \in ScarceIndices, fok \in BOOLEAN :
    /\ TagAlive(tag)
    /\ \E r \in get_unit(texture_units) :
         IF ~r.ok
           THEN /\ lastOp' = Op("texture", "Err(NoMoreUnits)", "-", t, None, <<>>)
                /\ tag' = <<"Dropped">>
                /\ UNCHANGED <<texture_units, in_use>>
           ELSE /\ lastOp' = Op("texture", Ret(fok), "bind_texture", t,
                                Some(r.entry.unit), <<>>)
                /\ texture_units' = r.units
                /\ tag' = IF fok THEN tag ELSE <<"Dropped">>
                /\ in_use' = IF fok
                               THEN [in_use EXCEPT !.textures = Append(@, r.entry)]
                               ELSE in_use
    /\ UNCHANGED <<uniform_buffer_units, in_use_stack, unused_stack>>
    /\ UNCHANGED sessVars
    /\ UNCHANGED extVars
    /\ UNCHANGED otherVars
    /\ UNCHANGED devVars

\* Layer::uniform_buffer
LayerUniformBuffer ==
  \E ub \in ScarceIndices, fok \in BOOLEAN :
    /\ TagAlive(tag)
    /\ \E r \in get_unit(uniform_buffer_units) :
         IF ~r.ok
           THEN /\ lastOp' = Op("uniform_buffer", "Err(NoMoreUnits)", "-", ub, None, <<>>)
                /\ tag' = <<"Dropped">>
                /\ UNCHANGED <<uniform_buffer_units, in_use>>
           ELSE /\ lastOp' = Op("uniform_buffer", Ret(fok), "bind_uniform_buffer", ub,
                                Some(r.entry.unit), <<>>)
                /\ uniform_buffer_units' = r.units
                /\ tag' = IF fok THEN tag ELSE <<"Dropped">>
                /\ in_use' = IF fok
                               THEN [in_use EXCEPT !.uniform_buffers = Append(@, r.entry)]
                               ELSE in_use
    /\ UNCHANGED <<texture_units, in_use_stack, unused_stack>>
    /\ UNCHANGED sessVars
    /\ UNCHANGED extVars
    /\ UNCHANGED otherVars
    /\ UNCHANGED devVars

\* Layer<B, Parent<P, T>>::done: mark_idle_and_clear, the cleared record goes
\* on unused_stack, the enclosing scope's record comes back from in_use_stack,
\* and the type becomes Layer<B, P>
LayerDone ==
  /\ HasDone(tag)
  /\ lastOp' = Op("layer_done", "Ok", "-", 0, None, in_use.textures)
  /\ texture_units' = mark_idle(texture_units, in_use.textures)
  /\ uniform_buffer_units' = mark_idle(uniform_buffer_units, in_use.uniform_buffers)
  /\ unused_stack' = Append(unused_stack, InUseCleared(in_use))
  /\ in_use' = PopOrDefault(in_use_stack)
  /\ in_use_stack' = PopRest(in_use_stack)
  /\ tag' = <<"Layer">> \o Tail(tag)
  /\ UNCHANGED sessVars
  /\ UNCHANGED extVars
  /\ UNCHANGED otherVars
  /\ UNCHANGED devVars

(* ======================================================================= *)
(* Device, cache of scarce resources and resource wrappers                 *)
(* (piksels-core/src/device.rs, cache.rs, texture.rs, shader.rs,           *)
(*  render_targets.rs, swap_chain.rs, vertex_array.rs, pipeline.rs)        *)
(* ======================================================================= *)

Objs == 1..MaxObjs

Kinds == {"vertex_array", "render_targets", "shader", "texture", "cmd_buf",
          "swap_chain"}

Queries == {"author", "name", "version", "shading_lang_version", "info"}

\* what the backend answers to a query (immutable backend metadata)
BackendReports(q) == q

\* mutant: the swap chains are forgotten by the cache teardown
CacheDropKinds_noSwapChain ==
  {"vertex_array", "render_targets", "shader", "texture", "cmd_buf"}

\* the maps Cache::drop iterates over
CacheDropKinds ==
  {"vertex_array", "render_targets", "shader", "texture", "cmd_buf", "swap_chain"}

\* Cache::drop: object -> number of destructor calls it makes; each map holds
\* one handle per scarce index
CacheDrop(tr) ==
  [o \in Objs |-> Cardinality({k \in CacheDropKinds : o \in tr[k]})]

\* mutant: the new resource is not recorded
track_nothing(tr, kind, o) == tr

\* Cache::track_*: insert(res.scarce_index(), res.scarce_clone())
track(tr, kind, o) == [tr EXCEPT ![kind] = @ \cup {o}]

\* Cache::untrack_*: remove(&res.scarce_index()); the B::drop_* call is made by
\* the caller of this operator
untrack(tr, kind, o) == [tr EXCEPT ![kind] = @ \ {o}]

\* Drop for Texture / Shader / RenderTargets / SwapChain:
\* if let Some(Ok(cache)) = self.cache.upgrade().map(|c| c.lock())
WrapperReachesCache(alive, pois) == alive /\ ~pois

\* the wrappers whose Drop goes through the cache
CacheAwareKinds == {"render_targets", "shader", "texture", "swap_chain"}

\* what the teardown of a wrapper does: [untrack, destroy]
\*   - cache-aware wrappers: untrack_* (remove + B::drop_*) if the cache is reached
\*   - VertexArray: no Drop impl
\*   - CmdBuf: no Drop impl in cmd_buf.rs; pipeline.rs calls B::drop_cmd_buf
WrapperDrop(kind, alive, pois, impl) ==
  IF kind \in CacheAwareKinds
    THEN [untrack |-> WrapperReachesCache(alive, pois),
          destroy |-> WrapperReachesCache(alive, pois)]
    ELSE IF kind = "cmd_buf" /\ impl = "pipeline.rs"
           THEN [untrack |-> FALSE, destroy |-> TRUE]
           ELSE [untrack |-> FALSE, destroy |-> FALSE]

\* mutant: a poisoned lock is entered anyway
device_query_intoPoison(c, q, pois, bok) ==
  IF c # None
    THEN [cache |-> c, called |-> FALSE, ret |-> "Ok", value |-> c]
    ELSE IF bok
           THEN [cache |-> Some(BackendReports(q)), called |-> TRUE,
                 ret |-> "Ok", value |-> Some(BackendReports(q))]
           ELSE [cache |-> c, called |-> TRUE, ret |-> "Err(backend)",
                 value |-> None]

\* mutant: the fetched value is returned but not stored
device_query_nostore(c, q, pois, bok) ==
  IF pois
    THEN [cache |-> c, called |-> FALSE, ret |-> "Err(Poisoned)", value |-> None]
    ELSE IF c # None
           THEN [cache |-> c, called |-> FALSE, ret |-> "Ok", value |-> c]
           ELSE IF bok
                  THEN [cache |-> c, called |-> TRUE, ret |-> "Ok",
                        value |-> Some(BackendReports(q))]
                  ELSE [cache |-> c, called |-> TRUE, ret |-> "Err(backend)",
                        value |-> None]

\* mutant: a failed backend call leaves a placeholder value in the store
device_query_storeOnErr(c, q, pois, bok) ==
  IF pois
    THEN [cache |-> c, called |-> FALSE, ret |-> "Err(Poisoned)", value |-> None]
    ELSE IF c # None
           THEN [cache |-> c, called |-> FALSE, ret |-> "Ok", value |-> c]
           ELSE IF bok
                  THEN [cache |-> Some(BackendReports(q)), called |-> TRUE,
                        ret |-> "Ok", value |-> Some(BackendReports(q))]
                  ELSE [cache |-> Some("?"), called |-> TRUE,
                        ret |-> "Err(backend)", value |-> None]

\* cache_options!: Device::author / name / version / shading_lang_version / info
\* c: the stored Option; pois: the lock is poisoned; bok: the backend call succeeds
device_query(c, q, pois, bok) ==
  IF pois
    THEN [cache |-> c, called |-> FALSE, ret |-> "Err(Poisoned)", value |-> None]
    ELSE IF c # None
           THEN [cache |-> c, called |-> FALSE, ret |-> "Ok", value |-> c]
           ELSE IF bok
                  THEN [cache |-> Some(BackendReports(q)), called |-> TRUE,
                        ret |-> "Ok", value |-> Some(BackendReports(q))]
                  ELSE [cache |-> c, called |-> TRUE, ret |-> "Err(backend)",
                        value |-> None]

NoTracked == [k \in Kinds |-> {}]

DevOp(op, what, ret, o) ==
  [op |-> op, what |-> what, ret |-> ret, obj |-> o,
   alive |-> cacheAlive, poisoned |-> poisoned,
   called |-> FALSE, value |-> None, untracked |-> FALSE, destroyed |-> FALSE]

\* Device::new: an empty cache behind Arc<Mutex<_>>
InitDevVars(impl) ==
  /\ cacheAlive = TRUE
  /\ poisoned = FALSE
  /\ cmdBufImpl = impl
  /\ tracked = NoTracked
  /\ okind = [o \in Objs |-> "-"]
  /\ wrapper = [o \in Objs |-> "none"]
  /\ fromSwapChain = {}
  /\ dropCtx = [o \in Objs |-> "-"]
  /\ tracks = [o \in Objs |-> 0]
  /\ untracks = [o \in Objs |-> 0]
  /\ destroys = [o \in Objs |-> 0]
  /\ teardown = [o \in Objs |-> 0]
  /\ qcache = [q \in Queries |-> None]
  /\ qcalls = [q \in Queries |-> 0]
  /\ lastDev = [op |-> "new_device", what |-> "-", ret |-> "Ok", obj |-> 0,
                alive |-> TRUE, poisoned |-> FALSE,
                called |-> FALSE, value |-> None, untracked |-> FALSE,
                destroyed |-> FALSE]

\* no view taken yet
NoView ==
  [range |-> "-", start |-> 0, end |-> 0, panicked |-> FALSE,
   start_vertex |-> 0, vertex_count |-> 0, instance_count |-> 0]

\* VertexArray::from_raw(raw, vertex_count)
InitViewVars(vertex_count) ==
  /\ vertex_array = [vertex_count |-> vertex_count]
  /\ view = NoView

\* a thread that runs no call
NoLocal == [call |-> "-", what |-> "-", obj |-> 0, seen |-> None, snap |-> {},
            ret |-> "-", value |-> None, first |-> FALSE, waited |-> FALSE]

\* no thread has called the Device yet; the mutex is free
InitThreadVars ==
  /\ pc = [t \in Threads |-> "idle"]
  /\ lock = 0
  /\ local = [t \in Threads |-> NoLocal]

InitExtVars == InitViewVars(0) /\ InitThreadVars

InitRestVars == InitDevVars("cmd_buf.rs") /\ InitNestVars /\ InitExtVars

\* what no Device, wrapper, view or thread operation touches
nonDevVarsCore ==
  <<cached, device, hist, setUsed, units, results, idleCalled, lastIdled,
    layer, parent, texture_units, uniform_buffer_units, in_use,
    in_use_stack, lastOp, rtOpen, shOpen, fullGroupClosed, finished,
    tag, unused_stack>>

nonDevVars == <<nonDevVarsCore, extVars>>

CacheState == IF ~cacheAlive THEN "gone" ELSE IF poisoned THEN "poisoned" ELSE "live"

\* the next backend object: scarce indices are unique
FreshObj(o) == okind[o] = "-" /\ \A p \in Objs : p < o => okind[p] # "-"

\* Device::author .. info
DeviceQuery ==
  \E q \in Queries, bok \in BOOLEAN :
    /\ cacheAlive
    /\ LET r == device_query(qcache[q], q, poisoned, bok) IN
         /\ qcache' = [qcache EXCEPT ![q] = r.cache]
         /\ qcalls' = [qcalls EXCEPT ![q] =
                         IF r.called /\ r.ret = "Ok" /\ @ < 2 THEN @ + 1 ELSE @]
         /\ lastDev' = [DevOp("query", q, r.ret, 0) EXCEPT
                          !.called = r.called, !.value = r.value]
    /\ UNCHANGED <<cacheAlive, poisoned, cmdBufImpl, tracked, okind, wrapper,
                   fromSwapChain, dropCtx, tracks, untracks, destroys, teardown>>
    /\ UNCHANGED nonDevVars

\* Device::new_vertex_array .. new_swap_chain: backend creation, wrapping, then
\* lock + track; when the lock fails the fresh wrapper is torn down by `?`
DeviceNew ==
  \E kind \in Kinds, bok \in BOOLEAN, o \in Objs :
    /\ cacheAlive
    /\ FreshObj(o)
    /\ IF ~bok
         THEN /\ lastDev' = DevOp("new", kind, "Err(backend)", 0)
              /\ UNCHANGED <<tracked, okind, wrapper, dropCtx, tracks, destroys>>
         ELSE IF poisoned
           THEN LET d == WrapperDrop(kind, cacheAlive, poisoned, cmdBufImpl) IN
                  /\ lastDev' = [DevOp("new", kind, "Err(Poisoned)", o) EXCEPT
                                   !.destroyed = d.destroy]
                  /\ okind' = [okind EXCEPT ![o] = kind]
                  /\ wrapper' = [wrapper EXCEPT ![o] = "dropped"]
                  /\ dropCtx' = [dropCtx EXCEPT ![o] = CacheState]
                  /\ destroys' = [destroys EXCEPT ![o] = IF d.destroy THEN @ + 1 ELSE @]
                  /\ UNCHANGED <<tracked, tracks>>
           ELSE /\ lastDev' = DevOp("new", kind, "Ok", o)
                /\ okind' = [okind EXCEPT ![o] = kind]
                /\ wrapper' = [wrapper EXCEPT ![o] = "alive"]
                /\ tracked' = track(tracked, kind, o)
                /\ tracks' = [tracks EXCEPT ![o] = @ + 1]
                /\ UNCHANGED <<dropCtx, destroys>>
    /\ UNCHANGED <<cacheAlive, poisoned, cmdBufImpl, fromSwapChain, untracks,
                   teardown, qcache, qcalls>>
    /\ UNCHANGED nonDevVars

\* SwapChain::render_targets: wraps the backend's render targets with a clone of
\* the weak cache reference; nothing is tracked
SwapChainRenderTargets ==
  \E sc \in Objs, bok \in BOOLEAN, o \in Objs :
    /\ okind[sc] = "swap_chain" /\ wrapper[sc] = "alive"
    /\ FreshObj(o)
    /\ IF ~bok
         THEN /\ lastDev' = DevOp("swap_chain_render_targets", "render_targets",
                                  "Err(backend)", 0)
              /\ UNCHANGED <<okind, wrapper, fromSwapChain>>
         ELSE /\ lastDev' = DevOp("swap_chain_render_targets", "render_targets",
                                  "Ok", o)
              /\ okind' = [okind EXCEPT ![o] = "render_targets"]
              /\ wrapper' = [wrapper EXCEPT ![o] = "alive"]
              /\ fromSwapChain' = fromSwapChain \cup {o}
    /\ UNCHANGED <<cacheAlive, poisoned, cmdBufImpl, tracked, dropCtx, tracks,
                   untracks, destroys, teardown, qcache, qcalls>>
    /\ UNCHANGED nonDevVars

\* the teardown of a resource wrapper (scope exit)
DropWrapper ==
  \E o \in Objs :
    /\ wrapper[o] = "alive"
    /\ LET d == WrapperDrop(okind[o], cacheAlive, poisoned, cmdBufImpl) IN
         /\ lastDev' = [DevOp("drop_wrapper", okind[o], "()", o) EXCEPT
                          !.untracked = d.untrack, !.destroyed = d.destroy]
         /\ tracked' = IF d.untrack THEN untrack(tracked, okind[o], o) ELSE tracked
         /\ untracks' = [untracks EXCEPT ![o] = IF d.untrack THEN @ + 1 ELSE @]
         /\ destroys' = [destroys EXCEPT ![o] = IF d.destroy THEN @ + 1 ELSE @]
    /\ wrapper' = [wrapper EXCEPT ![o] = "dropped"]
    /\ dropCtx' = [dropCtx EXCEPT ![o] = CacheState]
    /\ UNCHANGED <<cacheAlive, poisoned, cmdBufImpl, okind, fromSwapChain,
                   tracks, teardown, qcache, qcalls>>
    /\ UNCHANGED nonDevVars

\* the teardown of the Device: the last strong reference goes, Cache::drop runs.
\* Cache::drop iterates over the maps without draining them; `tracked` keeps
\* their last contents (nothing reads them once cacheAlive is FALSE)
DropDevice ==
  /\ cacheAlive
  /\ cacheAlive' = FALSE
  /\ lastDev' = DevOp("drop_device", "-", "()", 0)
  /\ teardown' = CacheDrop(tracked)
  /\ destroys' = [o \in Objs |-> destroys[o] + CacheDrop(tracked)[o]]
  /\ UNCHANGED <<poisoned, cmdBufImpl, tracked, okind, wrapper, fromSwapChain,
                 dropCtx, tracks, untracks, qcache, qcalls>>
  /\ UNCHANGED nonDevVars

\* a thread panics while it holds the cache lock
PoisonLock ==
  /\ cacheAlive
  /\ ~poisoned
  /\ poisoned' = TRUE
  /\ lastDev' = DevOp("poison", "-", "()", 0)
  /\ UNCHANGED <<cacheAlive, cmdBufImpl, tracked, okind, wrapper, fromSwapChain,
                 dropCtx, tracks, untracks, destroys, teardown, qcache, qcalls>>
  /\ UNCHANGED nonDevVars

(* ======================================================================= *)
(* Threads sharing one Device: the cache behind Arc<Mutex<_>>              *)
(* (piksels-core/src/device.rs, cache.rs, texture.rs)                      *)
(* The mutex is never poisoned here: no thread panics while it holds it.   *)
(* ======================================================================= *)

\* mutant: lock() returns at once, whoever holds the mutex
LockFree_always(holder) == TRUE

\* Mutex::lock returns only when no thread holds the mutex
LockFree(holder) == holder = 0

\* the guard goes out of scope
Unlock(t) == IF lock = t THEN 0 ELSE lock

\* the positions of a thread inside a critical section of the cache
Critical == {"query_check", "query_call", "query_store", "new_track", "drop_untrack"}

\* no thread is still creating object o
Returned(o) == \A t \in Threads : pc[t] # "idle" => local[t].obj # o

\* ---- cache_options!: Device::author .. Device::info, step by step

\* the call is entered: the thread waits for the mutex (first: nothing is
\* stored yet for the query; waited: another thread holds the mutex)
ThreadQueryBegin ==
  \E t \in Threads, q \in Queries :
    /\ cacheAlive /\ ~poisoned
    /\ pc[t] = "idle"
    /\ pc' = [pc EXCEPT ![t] = "query_lock"]
    /\ local' = [local EXCEPT ![t] =
                   [NoLocal EXCEPT !.call = "query", !.what = q,
                                   !.first = (qcache[q] = None),
                                   !.waited = (lock # 0)]]
    /\ UNCHANGED <<lock, viewVars>>
    /\ UNCHANGED devVars
    /\ UNCHANGED nonDevVarsCore

\* self.cache.lock()
ThreadQueryLock ==
  \E t \in Threads :
    /\ pc[t] = "query_lock"
    /\ LockFree(lock)
    /\ lock' = t
    /\ pc' = [pc EXCEPT ![t] = "query_check"]
    /\ UNCHANGED <<local, viewVars>>
    /\ UNCHANGED devVars
    /\ UNCHANGED nonDevVarsCore

\* match cache.$var(): Some(x) => Ok(x.clone()), None => go on to the backend
ThreadQueryCheck ==
  \E t \in Threads :
    /\ pc[t] = "query_check"
    /\ LET c == qcache[local[t].what] IN
         IF c # None
           THEN /\ local' = [local EXCEPT ![t].seen = c, ![t].ret = "Ok",
                                          ![t].value = c]
                /\ pc' = [pc EXCEPT ![t] = "idle"]
                /\ lock' = Unlock(t)
           ELSE /\ local' = [local EXCEPT ![t].seen = c]
                /\ pc' = [pc EXCEPT ![t] = "query_call"]
                /\ UNCHANGED lock
    /\ UNCHANGED viewVars
    /\ UNCHANGED devVars
    /\ UNCHANGED nonDevVarsCore

\* let x = self.backend.$var()?
ThreadQueryCall ==
  \E t \in Threads, bok \in BOOLEAN :
    /\ pc[t] = "query_call"
    /\ IF bok
         THEN /\ local' = [local EXCEPT
                             ![t].value = Some(BackendReports(local[t].what))]
              /\ qcalls' = [qcalls EXCEPT ![local[t].what] =
                              IF @ < 2 THEN @ + 1 ELSE @]
              /\ pc' = [pc EXCEPT ![t] = "query_store"]
              /\ UNCHANGED lock
         ELSE /\ local' = [local EXCEPT ![t].ret = "Err(backend)"]
              /\ pc' = [pc EXCEPT ![t] = "idle"]
              /\ lock' = Unlock(t)
              /\ UNCHANGED qcalls
    /\ UNCHANGED <<cacheAlive, poisoned, cmdBufImpl, tracked, okind, wrapper,
                   fromSwapChain, dropCtx, tracks, untracks, destroys, teardown,
                   qcache, lastDev>>
    /\ UNCHANGED viewVars
    /\ UNCHANGED nonDevVarsCore

\* *cache.$var() = Some(x.clone()); Ok(x)
ThreadQueryStore ==
  \E t \in Threads :
    /\ pc[t] = "query_store"
    /\ qcache' = [qcache EXCEPT ![local[t].what] = local[t].value]
    /\ local' = [local EXCEPT ![t].ret = "Ok"]
    /\ pc' = [pc EXCEPT ![t] = "idle"]
    /\ lock' = Unlock(t)
    /\ UNCHANGED <<cacheAlive, poisoned, cmdBufImpl, tracked, okind, wrapper,
                   fromSwapChain, dropCtx, tracks, untracks, destroys, teardown,
                   qcalls, lastDev>>
    /\ UNCHANGED viewVars
    /\ UNCHANGED nonDevVarsCore

\* ---- Device::new_*: backend creation and wrapping, then lock and track

\* self.backend.new_*(..).map(|raw| X::from_raw(raw, ..))?
ThreadNewCreate ==
  \E t \in Threads, kind \in Kinds, bok \in BOOLEAN, o \in Objs :
    /\ cacheAlive /\ ~poisoned
    /\ pc[t] = "idle"
    /\ FreshObj(o)
    /\ IF bok
         THEN /\ okind' = [okind EXCEPT ![o] = kind]
              /\ wrapper' = [wrapper EXCEPT ![o] = "alive"]
              /\ local' = [local EXCEPT ![t] =
                             [NoLocal EXCEPT !.call = "new", !.what = kind, !.obj = o]]
              /\ pc' = [pc EXCEPT ![t] = "new_lock"]
         ELSE /\ local' = [local EXCEPT ![t] =
                             [NoLocal EXCEPT !.call = "new", !.what = kind,
                                             !.ret = "Err(backend)"]]
              /\ UNCHANGED <<okind, wrapper, pc>>
    /\ UNCHANGED <<cacheAlive, poisoned, cmdBufImpl, tracked, fromSwapChain,
                   dropCtx, tracks, untracks, destroys, teardown, qcache, qcalls,
                   lastDev>>
    /\ UNCHANGED <<lock, viewVars>>
    /\ UNCHANGED nonDevVarsCore

\* self.cache.lock(): the map is read when the insertion starts
ThreadNewLock ==
  \E t \in Threads :
    /\ pc[t] = "new_lock"
    /\ LockFree(lock)
    /\ lock' = t
    /\ local' = [local EXCEPT ![t].snap = tracked[local[t].what]]
    /\ pc' = [pc EXCEPT ![t] = "new_track"]
    /\ UNCHANGED viewVars
    /\ UNCHANGED devVars
    /\ UNCHANGED nonDevVarsCore

\* track_*(&x.raw): the map with the new entry is written back; Ok(x)
ThreadNewTrack ==
  \E t \in Threads :
    /\ pc[t] = "new_track"
    /\ LET kind == local[t].what
           o == local[t].obj
       IN /\ tracked' = track([tracked EXCEPT ![kind] = local[t].snap], kind, o)
          /\ tracks' = [tracks EXCEPT ![o] = @ + 1]
    /\ local' = [local EXCEPT ![t].ret = "Ok"]
    /\ pc' = [pc EXCEPT ![t] = "idle"]
    /\ lock' = Unlock(t)
    /\ UNCHANGED <<cacheAlive, poisoned, cmdBufImpl, okind, wrapper, fromSwapChain,
                   dropCtx, untracks, destroys, teardown, qcache, qcalls, lastDev>>
    /\ UNCHANGED viewVars
    /\ UNCHANGED nonDevVarsCore

\* ---- the teardown of a wrapper by the thread that owns it

\* drop(x): wrappers without a cache-aware Drop are done at once; the others
\* upgrade their Weak and wait for the mutex
ThreadDropBegin ==
  \E t \in Threads, o \in Objs :
    /\ pc[t] = "idle"
    /\ wrapper[o] = "alive"
    /\ Returned(o)
    /\ wrapper' = [wrapper EXCEPT ![o] = "dropped"]
    /\ dropCtx' = [dropCtx EXCEPT ![o] = CacheState]
    /\ LET d == WrapperDrop(okind[o], cacheAlive, poisoned, cmdBufImpl) IN
         IF d.untrack
           THEN /\ pc' = [pc EXCEPT ![t] = "drop_lock"]
                /\ local' = [local EXCEPT ![t] =
                               [NoLocal EXCEPT !.call = "drop", !.what = okind[o],
                                               !.obj = o]]
                /\ UNCHANGED destroys
           ELSE /\ destroys' = [destroys EXCEPT ![o] = IF d.destroy THEN @ + 1 ELSE @]
                /\ local' = [local EXCEPT ![t] =
                               [NoLocal EXCEPT !.call = "drop", !.what = okind[o],
                                               !.ret = "()"]]
                /\ UNCHANGED pc
    /\ UNCHANGED <<cacheAlive, poisoned, cmdBufImpl, tracked, okind, fromSwapChain,
                   tracks, untracks, teardown, qcache, qcalls, lastDev>>
    /\ UNCHANGED <<lock, viewVars>>
    /\ UNCHANGED nonDevVarsCore

\* c.lock(): the map is read when the removal starts
ThreadDropLock ==
  \E t \in Threads :
    /\ pc[t] = "drop_lock"
    /\ LockFree(lock)
    /\ lock' = t
    /\ local' = [local EXCEPT ![t].snap = tracked[local[t].what]]
    /\ pc' = [pc EXCEPT ![t] = "drop_untrack"]
    /\ UNCHANGED viewVars
    /\ UNCHANGED devVars
    /\ UNCHANGED nonDevVarsCore

\* cache.untrack_*(&self.raw): the map without the entry is written back and
\* B::drop_* is called
ThreadDropUntrack ==
  \E t \in Threads :
    /\ pc[t] = "drop_untrack"
    /\ LET kind == local[t].what
           o == local[t].obj
       IN /\ tracked' = untrack([tracked EXCEPT ![kind] = local[t].snap], kind, o)
          /\ untracks' = [untracks EXCEPT ![o] = @ + 1]
          /\ destroys' = [destroys EXCEPT ![o] = @ + 1]
    /\ local' = [local EXCEPT ![t].ret = "()"]
    /\ pc' = [pc EXCEPT ![t] = "idle"]
    /\ lock' = Unlock(t)
    /\ UNCHANGED <<cacheAlive, poisoned, cmdBufImpl, okind, wrapper, fromSwapChain,
                   dropCtx, tracks, teardown, qcache, qcalls, lastDev>>
    /\ UNCHANGED viewVars
    /\ UNCHANGED nonDevVarsCore

(* ======================================================================= *)
(* VertexArray::view (piksels-core/src/vertex_array.rs)                    *)
(* ======================================================================= *)

UsizeMod == 2 ^ UsizeBits

\* the vertex counts and range bounds explored
Vertices == 0..MaxVertices

\* x - y on usize: the difference if it is not negative; otherwise the build
\* decides: a panic (overflow checks on) or the wrapped value (checks off)
usize_sub(x, y) ==
  IF x >= y
    THEN {[panicked |-> FALSE, value |-> x - y]}
    ELSE {[panicked |-> TRUE, value |-> 0],
          [panicked |-> FALSE, value |-> (x - y + UsizeMod) % UsizeMod]}

\* the VertexArrayView built by view(), with the range it was built from;
\* count: an outcome of usize_sub
VertexArrayView(range, start, end, start_vertex, count) ==
  IF count.panicked
    THEN [NoView EXCEPT !.range = range, !.start = start, !.end = end,
                        !.panicked = TRUE]
    ELSE [range |-> range, start |-> start, end |-> end, panicked |-> FALSE,
          start_vertex |-> start_vertex, vertex_count |-> count.value,
          instance_count |-> 1]

Exactly(n) == [panicked |-> FALSE, value |-> n]

\* View<B, RangeFull>::view(..)
ViewRangeFull ==
  /\ view' = VertexArrayView("..", 0, 0, 0, Exactly(vertex_array.vertex_count))
  /\ UNCHANGED <<vertex_array, threadVars>>
  /\ UNCHANGED nonDevVarsCore
  /\ UNCHANGED devVars

\* View<B, Range<usize>>::view(a..b)
ViewRange ==
  \E a \in Vertices, b \in Vertices :
    /\ view' = VertexArrayView("a..b", a, b, a, Exactly(b))
    /\ UNCHANGED <<vertex_array, threadVars>>
    /\ UNCHANGED nonDevVarsCore
    /\ UNCHANGED devVars

\* View<B, RangeFrom<usize>>::view(a..)
ViewRangeFrom ==
  \E a \in Vertices :
    \E count \in usize_sub(vertex_array.vertex_count, a) :
      /\ view' = VertexArrayView("a..", a, 0, a, count)
      /\ UNCHANGED <<vertex_array, threadVars>>
      /\ UNCHANGED nonDevVarsCore
      /\ UNCHANGED devVars

\* View<B, RangeTo<usize>>::view(..b)
ViewRangeTo ==
  \E b \in Vertices :
    \E count \in usize_sub(b, 1) :
      /\ view' = VertexArrayView("..b", 0, b, 0, count)
      /\ UNCHANGED <<vertex_array, threadVars>>
      /\ UNCHANGED nonDevVarsCore
      /\ UNCHANGED devVars

\* View<B, RangeToInclusive<usize>>::view(..=b)
ViewRangeToInclusive ==
  \E b \in Vertices :
    /\ view' = VertexArrayView("..=b", 0, b, 0, Exactly(b))
    /\ UNCHANGED <<vertex_array, threadVars>>
    /\ UNCHANGED nonDevVarsCore
    /\ UNCHANGED devVars

(* ======================================================================= *)
(* Specifications                                                          *)
(* ======================================================================= *)

InitCached == InitCachedVars /\ InitUnitsVars /\ InitLayerVars(0, 0) /\ InitRestVars
NextCached == SetIfInvalid \/ Invalidate \/ Set
SpecCached == InitCached /\ [][NextCached]_vars

InitUnits ==
  /\ InitCachedVars
  /\ \E n \in 0..MaxUnits : units = UnitsNew(n)
  /\ results = <<>>
  /\ idleCalled = FALSE
  /\ lastIdled = [u \in UnitValues |-> None]
  /\ InitLayerVars(0, 0)
  /\ InitRestVars
NextUnits == GetUnit \/ Idle \/ InUse
SpecUnits == InitUnits /\ [][NextUnits]_vars

Init ==
  /\ InitCachedVars
  /\ InitUnitsVars
  /\ \E mt \in 0..MaxUnits, mu \in 0..MaxUnits : InitLayerVars(mt, mu)
  /\ InitRestVars
Next ==
  \/ LayersRenderTargets
  \/ LayersDone
  \/ RenderTargetsLayerShader
  \/ RenderTargetsLayerDone
  \/ ShaderLayerSetUniform
  \/ ShaderLayerDraw
  \/ ShaderLayerDone
  \/ Setter
  \/ Group
  \/ GroupLayerTexture
  \/ GroupLayerUniformBuffer
  \/ GroupLayerDone
Spec == Init /\ [][Next]_vars

InitDevice ==
  /\ InitCachedVars
  /\ InitUnitsVars
  /\ InitLayerVars(0, 0)
  /\ \E impl \in {"cmd_buf.rs", "pipeline.rs"} : InitDevVars(impl)
  /\ InitNestVars
  /\ InitExtVars
\* resources: creation, wrapper teardown, Device teardown
NextDevice ==
  \/ DeviceNew
  \/ SwapChainRenderTargets
  \/ DropWrapper
  \/ DropDevice
  \/ PoisonLock
SpecDevice == InitDevice /\ [][NextDevice]_vars

\* unit allocation in a session whose pools are handed over in any state the
\* Units interface can produce (ChangeLayer::change_layer takes the pools as
\* they are)
InitAlloc ==
  /\ InitCachedVars
  /\ InitUnitsVars
  /\ \E N \in 0..MaxUnits : \E P \in UnitsStates(N) :
        LayersChangeLayer(P, P, <<>>)
  /\ InitRestVars
NextAlloc ==
  \/ Group
  \/ GroupLayerTexture
  \/ GroupLayerUniformBuffer
  \/ GroupLayerDone
SpecAlloc == InitAlloc /\ [][NextAlloc]_vars

\* group scopes of a fresh session, where an open scope is eventually closed:
\* a GroupLayer value is either passed to done() or consumed by a failed call
SpecGroupFair == Init /\ [][NextAlloc]_vars /\ WF_vars(GroupLayerDone)

\* nested scopes of one Layer<B, T> session
InitLayer ==
  /\ InitCachedVars
  /\ InitUnitsVars
  /\ \E mt \in 0..MaxUnits, mu \in 0..MaxUnits : InitLayerVars(mt, mu)
  /\ InitRestVars
NextLayer ==
  \/ LayerGroup
  \/ LayerTexture
  \/ LayerUniformBuffer
  \/ LayerDone
SpecLayer == InitLayer /\ [][NextLayer]_vars

\* views of one vertex array of any size
InitView ==
  /\ InitCachedVars
  /\ InitUnitsVars
  /\ InitLayerVars(0, 0)
  /\ InitDevVars("cmd_buf.rs")
  /\ InitNestVars
  /\ \E n \in Vertices : InitViewVars(n)
  /\ InitThreadVars
NextView ==
  \/ ViewRangeFull
  \/ ViewRange
  \/ ViewRangeFrom
  \/ ViewRangeTo
  \/ ViewRangeToInclusive
SpecView == InitView /\ [][NextView]_vars

\* one fresh Device shared by the threads (cmd_buf.rs is the CmdBuf that
\* device.rs imports)
InitThreads ==
  /\ InitCachedVars
  /\ InitUnitsVars
  /\ InitLayerVars(0, 0)
  /\ InitRestVars

\* threads creating and tearing down resources of one Device
NextThreads ==
  \/ ThreadNewCreate
  \/ ThreadNewLock
  \/ ThreadNewTrack
  \/ ThreadDropBegin
  \/ ThreadDropLock
  \/ ThreadDropUntrack
SpecThreads == InitThreads /\ [][NextThreads]_vars

\* the threads that have called a query have all called the same one
SameQuery(l) ==
  \A t, u \in Threads :
    (l[t].call = "query" /\ l[u].call = "query") => l[t].what = l[u].what

\* threads reading one item of the backend metadata through one Device
NextThreadQueries ==
  \/ (ThreadQueryBegin /\ SameQuery(local'))
  \/ ThreadQueryLock
  \/ ThreadQueryCheck
  \/ ThreadQueryCall
  \/ ThreadQueryStore
SpecThreadQueries == InitThreads /\ [][NextThreadQueries]_vars

\* backend metadata queries
NextQueries ==
  \/ DeviceQuery
  \/ PoisonLock
  \/ DropDevice
SpecQueries == InitDevice /\ [][NextQueries]_vars

\* every Device operation that locks the cache
NextLocking ==
  \/ DeviceQuery
  \/ DeviceNew
  \/ PoisonLock
\* no wrapper outlives a failed call here, so the CmdBuf that device.rs
\* imports (cmd_buf.rs) is the one built
InitLocking ==
  /\ InitCachedVars
  /\ InitUnitsVars
  /\ InitLayerVars(0, 0)
  /\ InitRestVars
SpecLocking == InitLocking /\ [][NextLocking]_vars


(* ======================================================================= *)
(* Properties of Cached<T>  (checked under SpecCached)                     *)
(* ======================================================================= *)

IsSetIfInvalid(r) == r.op = "set_if_invalid"
Applies(r) == IF r.called THEN 1 ELSE 0

\* the last two operations were both set_if_invalid, nothing in between
TwoInARow ==
  /\ Len(hist) >= 2
  /\ IsSetIfInvalid(hist[Len(hist) - 1])
  /\ IsSetIfInvalid(hist[Len(hist)])

First  == hist[Len(hist) - 1]
Second == hist[Len(hist)]
LastOp == hist[Len(hist)]

\* C1 as stated: any two consecutive set_if_invalid(v, f) calls invoke f
\* exactly once in total; set_if_invalid(v1, f) then set_if_invalid(v2, f)
\* with v1 # v2 invokes f twice.
C1_TwoCallsOnceOriginal ==
  TwoInARow =>
    /\ (First.value = Second.value => Applies(First) + Applies(Second) = 1)
    /\ (First.value # Second.value => Applies(First) + Applies(Second) = 2)

\* C1 amended: when the cache does not already hold the first value before
\* the first call (it is absent or holds another value), two consecutive
\* set_if_invalid(v, f) calls invoke f exactly once in total and
\* set_if_invalid(v1, f) then set_if_invalid(v2, f), v1 # v2, invokes f twice;
\* in every case the second of two calls with the same value never invokes f.
C1_TwoCallsOnce ==
  TwoInARow =>
    /\ (First.value = Second.value => Applies(Second) = 0)
    /\ (First.pre # Some(First.value) =>
          /\ (First.value = Second.value => Applies(First) + Applies(Second) = 1)
          /\ (First.value # Second.value => Applies(First) + Applies(Second) = 2))

C1_Witness ==
  /\ TwoInARow
  /\ First.pre # None
  /\ First.pre # Some(First.value)
  /\ First.value = Second.value
  /\ Applies(First) = 1
  /\ Applies(Second) = 0

\* C2: if the apply function of set_if_invalid(v, f) returns an error, the
\* cached value is left exactly as it was before the call.
C2_ErrorLeavesCacheUntouched ==
  (Len(hist) >= 1 /\ IsSetIfInvalid(LastOp) /\ LastOp.ret = "Err") =>
    (LastOp.post = LastOp.pre /\ cached = LastOp.pre)

\* C3: after any sequence of set_if_invalid and invalidate calls (no explicit
\* set), the cached value, when present, equals the value of the most recent
\* apply that succeeded on the device; whenever set_if_invalid(v, f) skips f
\* the device already holds v.
C3_CachedIsLastApplied ==
  ~setUsed =>
    /\ (cached # None => cached = device)
    /\ ((Len(hist) >= 1 /\ IsSetIfInvalid(LastOp) /\ ~LastOp.called) =>
          device = Some(LastOp.value))

\* C4 as stated: set_if_invalid(v, f) reports "changed" exactly when the cache
\* was absent or held another value (then it calls f and stores v), and
\* reports "unchanged", without calling f or touching the cache, exactly when
\* the cache already held v.
C4_ChangedIffInvalidOriginal ==
  (Len(hist) >= 1 /\ IsSetIfInvalid(LastOp)) =>
    /\ (LastOp.ret = "Ok(true)" <=> LastOp.pre # Some(LastOp.value))
    /\ (LastOp.pre # Some(LastOp.value) =>
          LastOp.called /\ LastOp.post = Some(LastOp.value))
    /\ (LastOp.ret = "Ok(false)" <=> LastOp.pre = Some(LastOp.value))
    /\ (LastOp.pre = Some(LastOp.value) =>
          ~LastOp.called /\ LastOp.post = LastOp.pre)

\* C4 amended: when the cache was absent or held another value,
\* set_if_invalid(v, f) calls f and, if f succeeds, stores v and reports
\* "changed" (if f fails it returns f's error instead); it reports "changed"
\* exactly when the cache was absent or different and f succeeded, and it
\* reports "unchanged", without calling f or touching the cache, exactly when
\* the cache already held v.
C4_ChangedIffInvalid ==
  (Len(hist) >= 1 /\ IsSetIfInvalid(LastOp)) =>
    /\ (LastOp.ret = "Ok(true)" <=>
          (LastOp.pre # Some(LastOp.value) /\ LastOp.fok))
    /\ (LastOp.pre # Some(LastOp.value) =>
          /\ LastOp.called
          /\ (LastOp.fok => LastOp.post = Some(LastOp.value) /\ cached = LastOp.post)
          /\ (~LastOp.fok => LastOp.ret = "Err"))
    /\ (LastOp.ret = "Ok(false)" <=> LastOp.pre = Some(LastOp.value))
    /\ (LastOp.pre = Some(LastOp.value) =>
          ~LastOp.called /\ LastOp.post = LastOp.pre /\ cached = LastOp.pre)

C4_Witness ==
  /\ Len(hist) >= 2
  /\ IsSetIfInvalid(LastOp)
  /\ LastOp.pre # None
  /\ LastOp.pre # Some(LastOp.value)
  /\ ~LastOp.fok
  /\ LastOp.ret = "Err"

(* ======================================================================= *)
(* Properties of Units  (checked under SpecUnits)                          *)
(* ======================================================================= *)

\* C5: with max_units = N, the first N get_unit() calls with no idle() call
\* succeed with N pairwise distinct units, and the (N+1)-th (as every later
\* one) fails with NoMoreUnits.
C5_ExhaustionAfterN ==
  ~idleCalled =>
    \A k \in 1..Len(results) :
      /\ (k <= units.max_units =>
            /\ results[k].ok
            /\ \A j \in 1..(k - 1) : results[j].entry.unit # results[k].entry.unit)
      /\ (k > units.max_units => ~results[k].ok)

C5_Witness ==
  /\ ~idleCalled
  /\ units.max_units = MaxUnits
  /\ Len(results) = MaxUnits + 1
  /\ ~results[MaxUnits + 1].ok

\* C6: on an exhausted allocator, a get_unit() that returns unit u after
\* idle(u, A) carries current_scarce_index = A (the most recent annotation);
\* with max_units = 1 it is the one unit that comes back.
C6_IdleReuseCarriesIndex ==
  \A k \in 1..Len(results) :
    (results[k].ok /\ results[k].exhausted) =>
      /\ results[k].annot # None
      /\ results[k].entry.current_scarce_index = results[k].annot
      /\ (units.max_units = 1 => results[k].entry.unit = results[1].entry.unit)

C6_Witness ==
  /\ units.max_units = 1
  /\ Len(results) = 2
  /\ results[1].ok /\ ~results[1].exhausted
  /\ results[2].ok /\ results[2].exhausted
  /\ results[2].entry.unit = results[1].entry.unit
  /\ results[2].entry.current_scarce_index = Some(1)


(* ======================================================================= *)
(* Properties of the layer session  (checked under Spec)                   *)
(* ======================================================================= *)

\* C7: binding two textures in a group scope and then calling done() leaves
\* the texture allocator's idle map containing exactly the two units acquired
\* in that scope and no other unit.
C7_DoneIdlesExactlyScopeUnits ==
  (lastOp.op = "group_done" /\ Len(lastOp.released) = 2) =>
    DOMAIN texture_units.idle_units = UnitsOf(lastOp.released)

\* C8: with max texture units = N, after a group has bound N textures (units
\* 0..N-1) and has been closed with done(), a texture bound in a newly opened
\* group of the same session gets a unit: one of 0..N-1, never NoMoreUnits.
C8_ReuseAfterFullGroup ==
  (lastOp.op = "texture" /\ lastOp.fullGroupClosed) =>
    /\ lastOp.ret # "Err(NoMoreUnits)"
    /\ lastOp.unit # None
    /\ lastOp.unit[1] \in 0..(texture_units.max_units - 1)

\* C9: every draw or set-uniform backend command is issued from the
\* ShaderLayer stage, after bind-render-targets and then bind-shader succeeded
\* and before the matching done(); never from Layers or RenderTargetsLayer.
C9_DrawOnlyInShaderLayer ==
  (lastOp.cmd \in {"draw_vertex_array", "set_uniform"}) =>
    /\ lastOp.layer = "ShaderLayer"
    /\ lastOp.rtOpen
    /\ lastOp.shOpen

C9_Witness ==
  /\ lastOp.cmd = "draw_vertex_array"
  /\ lastOp.ret = "Ok"
  /\ lastOp.layer = "ShaderLayer"
  /\ layer = "ShaderLayer"
  /\ finished

\* C10: every bind-shader command is issued while a successful
\* bind-render-targets has not been left by done(): never from the top layer.
C10_ShaderOnlyAfterRenderTargets ==
  (lastOp.cmd = "bind_shader") =>
    /\ lastOp.layer = "RenderTargetsLayer"
    /\ lastOp.rtOpen

C10_Witness ==
  /\ lastOp.cmd = "bind_shader"
  /\ lastOp.ret = "Ok"
  /\ lastOp.rtOpen
  /\ layer = "ShaderLayer"

(* ----------------------------------------------------------------------- *)
(* Device, cache and wrappers                                              *)
(* ----------------------------------------------------------------------- *)

\* C11: for every resource whose wrapper has been torn down while the cache
\* was alive and its lock usable, the number of track calls equals the number
\* of untrack calls and the cache map of its kind no longer holds its index.
C11_TrackUntrackBalanced ==
  \A o \in Objs :
    (wrapper[o] = "dropped" /\ dropCtx[o] = "live") =>
       /\ tracks[o] = untracks[o]
       /\ o \notin tracked[okind[o]]

C13_WrapperTeardownFollowsCache ==
  lastDev.op = "drop_wrapper" =>
    IF lastDev.alive
      THEN lastDev.untracked /\ lastDev.destroyed
      ELSE ~lastDev.untracked /\ ~lastDev.destroyed

\* C14: every successful read of a Device query returns the value the backend
\* reports; the backend is successfully called at most once per query (by the
\* first successful read), and a read that does not call the backend returns
\* the stored value.
C14_QueryReadOnceThenStored ==
  /\ \A q \in Queries : qcalls[q] <= 1
  /\ \A q \in Queries : qcache[q] # None => qcalls[q] = 1
  /\ (lastDev.op = "query" /\ lastDev.ret = "Ok") =>
       /\ lastDev.value = Some(BackendReports(lastDev.what))
       /\ qcache[lastDev.what] = lastDev.value
       /\ qcalls[lastDev.what] = 1
  /\ (lastDev.op = "query" /\ lastDev.ret = "Ok" /\ ~lastDev.called) =>
       ~lastDev.poisoned

C14_Witness ==
  /\ lastDev.op = "query" /\ lastDev.ret = "Ok" /\ ~lastDev.called
  /\ qcalls[lastDev.what] = 1
  /\ \E q \in Queries : qcache[q] = None

IsLockingOp(d) == d.op \in {"query", "new"}

\* C18 as stated: with a poisoned lock every query and every new_* returns
\* the poisoned-lock error and leaves the cache as it was.
C18_PoisonedLockOriginal ==
  [][(poisoned /\ IsLockingOp(lastDev')) =>
       /\ lastDev'.ret = "Err(Poisoned)"
       /\ tracked' = tracked /\ qcache' = qcache]_vars

\* C18: with a poisoned lock every query returns the poisoned-lock error, and
\* every new_* returns an error: the backend's error if the creation fails
\* (the creation runs before the lock is taken), the poisoned-lock error
\* otherwise; no such call modifies the cache.
C18_PoisonedLockIsAnError ==
  [][(poisoned /\ IsLockingOp(lastDev')) =>
       /\ lastDev'.ret \in {"Err(Poisoned)", "Err(backend)"}
       /\ lastDev'.ret = "Err(backend)" => lastDev'.op = "new"
       /\ tracked' = tracked /\ qcache' = qcache]_vars

C18_Witness ==
  /\ lastDev.poisoned /\ lastDev.op = "new" /\ lastDev.ret = "Err(Poisoned)"
  /\ \E q \in Queries : qcache[q] # None
  /\ \E k \in Kinds : tracked[k] # {}

\* C20: the teardown of the cache passes every resource still tracked in one
\* of the six maps to its backend destructor exactly once, and no other.
C20_TeardownDestroysTracked ==
  ~cacheAlive =>
    \A o \in Objs :
      teardown[o] = IF \E k \in Kinds : o \in tracked[k] THEN 1 ELSE 0

C20_Witness ==
  /\ ~cacheAlive
  /\ \E o \in Objs : teardown[o] = 1 /\ okind[o] = "swap_chain"
  /\ \E o \in Objs : teardown[o] = 0 /\ untracks[o] = 1

(* ----------------------------------------------------------------------- *)
(* Unit exhaustion seen from a group                                       *)
(* ----------------------------------------------------------------------- *)

\* no fresh unit and no idle unit left
Exhausted(U) == U.next_unit >= U.max_units /\ DOMAIN U.idle_units = {}

\* C15: GroupLayer::texture / uniform_buffer fail with NoMoreUnits exactly
\* when get_unit() finds next_unit >= max_units and an empty idle map; the
\* failing call leaves the pool (next_unit, idle map) and the in-use record
\* unchanged and issues no bind command.
C15_NoMoreUnitsExactlyWhenExhausted ==
  [][/\ (lastOp' # lastOp /\ lastOp'.op = "texture") =>
          /\ (lastOp'.ret = "Err(NoMoreUnits)") <=> Exhausted(texture_units)
          /\ (lastOp'.ret = "Err(NoMoreUnits)") =>
                /\ texture_units' = texture_units
                /\ in_use' = in_use
                /\ lastOp'.cmd = "-"
     /\ (lastOp' # lastOp /\ lastOp'.op = "uniform_buffer") =>
          /\ (lastOp'.ret = "Err(NoMoreUnits)") <=> Exhausted(uniform_buffer_units)
          /\ (lastOp'.ret = "Err(NoMoreUnits)") =>
                /\ uniform_buffer_units' = uniform_buffer_units
                /\ in_use' = in_use
                /\ lastOp'.cmd = "-"]_vars

C15_Witness ==
  /\ lastOp.op = "texture" /\ lastOp.ret = "Err(NoMoreUnits)" /\ lastOp.cmd = "-"
  /\ texture_units.max_units = MaxUnits
  /\ Len(in_use.textures) = MaxUnits
  /\ \E k \in 1..Len(in_use.textures) :
       in_use.textures[k].current_scarce_index # None

(* ----------------------------------------------------------------------- *)
(* Nested scopes                                                           *)
(* ----------------------------------------------------------------------- *)

RECURSIVE Flatten(_)
Flatten(ss) == IF ss = <<>> THEN <<>> ELSE Head(ss) \o Flatten(Tail(ss))

\* the unit entries of one pool held by the active scopes: the current record
\* and the records of the enclosing scopes
HeldTextures == Flatten([k \in 1..Len(in_use_stack) |-> in_use_stack[k].textures])
                  \o in_use.textures
HeldUniformBuffers ==
  Flatten([k \in 1..Len(in_use_stack) |-> in_use_stack[k].uniform_buffers])
    \o in_use.uniform_buffers

NoUnitTwice(entries) ==
  \A j, k \in 1..Len(entries) : j # k => entries[j].unit # entries[k].unit

\* C16: over any sequence of group, texture, uniform_buffer and done, no unit
\* of a pool is in two unit entries held by in-use records of active scopes.
C16_NoUnitInTwoScopes ==
  /\ NoUnitTwice(HeldTextures)
  /\ NoUnitTwice(HeldUniformBuffers)

C16_Witness ==
  /\ Len(in_use_stack) >= 2
  /\ in_use_stack[2].textures # <<>>
  /\ in_use.textures # <<>>
  /\ unused_stack # <<>>

(* ----------------------------------------------------------------------- *)
(* Backend commands of the builder                                         *)
(* ----------------------------------------------------------------------- *)

\* C17: a pipeline-variable setter called right after a successful call of
\* the same setter with an equal value issues no backend command (the two
\* calls together issue at most one).
C17_RepeatedSetterIssuesNothing ==
  (lastOp.op \in Setters /\ lastOp.repeat) => lastOp.cmd = "-"

\* C19: when the backend command of a builder operation fails, the error is
\* what the operation returns and no stage is entered: the layer is gone with
\* the error (or, for the non-consuming finish, is still the top layer), and
\* the open render-target and shader stages are as before; the error is that
\* of the one command the operation issued.
C19_BackendErrorNoTransition ==
  lastOp.ret = "Err(backend)" =>
    /\ lastOp.cmd # "-"
    /\ IF lastOp.cmd = "finish" THEN layer = lastOp.layer ELSE layer = "Dropped"
    /\ rtOpen = lastOp.rtOpen /\ shOpen = lastOp.shOpen

C19_Witness ==
  /\ lastOp.op = "shader" /\ lastOp.ret = "Err(backend)"
  /\ lastOp.cmd = "bind_shader"
  /\ lastOp.layer = "RenderTargetsLayer" /\ layer = "Dropped"
  /\ ~shOpen

(* ----------------------------------------------------------------------- *)
(* Release of units at the end of a scope                                  *)
(* ----------------------------------------------------------------------- *)

\* C21: every unit acquired by texture() or uniform_buffer() in a group scope
\* is eventually marked idle in its allocator once the scope has ended.
C21_AcquiredEventuallyIdle ==
  \A u \in UnitValues :
    /\ (u \in UnitsOf(in_use.textures)) ~> (u \in DOMAIN texture_units.idle_units)
    /\ (u \in UnitsOf(in_use.uniform_buffers))
         ~> (u \in DOMAIN uniform_buffer_units.idle_units)

(* ----------------------------------------------------------------------- *)
(* The allocator, call by call                                             *)
(* ----------------------------------------------------------------------- *)

\* C22: while next_unit < max_units, get_unit() returns unit = next_unit with
\* no prior binding, advances next_unit by one and leaves the idle map as it
\* is; once next_unit = max_units and the idle map is not empty, get_unit()
\* returns a unit of the idle map with the scarce index recorded for it,
\* removes that entry and leaves next_unit unchanged. The first unit is 0.
C22_FreshThenReuse ==
  [][Len(results') = Len(results) + 1 =>
       LET r == results'[Len(results')] IN
         IF units.next_unit < units.max_units
           THEN /\ r.ok
                /\ r.entry = [unit |-> units.next_unit, current_scarce_index |-> None]
                /\ units'.next_unit = units.next_unit + 1
                /\ units'.idle_units = units.idle_units
                /\ units'.max_units = units.max_units
                /\ (Len(results) = 0 => r.entry.unit = 0)
           ELSE (DOMAIN units.idle_units # {}) =>
                  /\ r.ok
                  /\ r.entry.unit \in DOMAIN units.idle_units
                  /\ r.entry.current_scarce_index =
                       Some(units.idle_units[r.entry.unit])
                  /\ units'.idle_units = Without(units.idle_units, r.entry.unit)
                  /\ units'.next_unit = units.next_unit
                  /\ units'.max_units = units.max_units]_vars

C22_Witness ==
  /\ Len(results) >= 2
  /\ results[Len(results)].ok /\ results[Len(results)].exhausted
  /\ \E k \in 1..(Len(results) - 1) : results[k].ok /\ ~results[k].exhausted
  /\ DOMAIN units.idle_units # {}

\* C23: idle(u, i) sets the idle-map entry of u to i and in_use(u) removes the
\* idle-map entry of u (nothing to remove when u is not idle); neither changes
\* next_unit, max_units or the idle-map entry of another unit.
C23_IdleInUseFrame ==
  \A u \in UnitValues :
    /\ \A i \in ScarceIndices :
         LET V == idle(units, u, i) IN
           /\ V.next_unit = units.next_unit /\ V.max_units = units.max_units
           /\ DOMAIN V.idle_units = DOMAIN units.idle_units \cup {u}
           /\ V.idle_units[u] = i
           /\ \A w \in DOMAIN units.idle_units :
                w # u => V.idle_units[w] = units.idle_units[w]
    /\ LET V == units_in_use(units, u) IN
         /\ V.next_unit = units.next_unit /\ V.max_units = units.max_units
         /\ DOMAIN V.idle_units = DOMAIN units.idle_units \ {u}
         /\ \A w \in DOMAIN V.idle_units : V.idle_units[w] = units.idle_units[w]
         /\ (u \notin DOMAIN units.idle_units => V = units)

C23_Witness ==
  /\ idleCalled
  /\ Cardinality(DOMAIN units.idle_units) = 1
  /\ units.next_unit = 2
  /\ \E u \in DOMAIN units.idle_units : lastIdled[u] # None
  /\ \E u \in UnitValues : u \notin DOMAIN units.idle_units /\ lastIdled[u] # None

(* ----------------------------------------------------------------------- *)
(* Closing scopes and stages                                               *)
(* ----------------------------------------------------------------------- *)

\* C24: when done() closes a group scope right after a texture was bound in
\* it, idle() has been called for the unit of that texture with the scarce
\* index of the texture (the resource bound to the unit at that moment), and
\* the in-use record of the scope is empty afterwards.
C24_DoneIdlesWithBoundResource ==
  [][(lastOp'.op = "group_done" /\ lastOp.op = "texture" /\ lastOp.ret = "Ok") =>
       /\ lastOp.unit[1] \in DOMAIN texture_units'.idle_units
       /\ texture_units'.idle_units[lastOp.unit[1]] = lastOp.arg
       /\ in_use' = InUseDefault]_vars

\* C25: done() leaves exactly one level: ShaderLayer -> RenderTargetsLayer,
\* RenderTargetsLayer -> Layers, GroupLayer -> the stage group() was called
\* on; only the done() of the top layer issues a backend command (finish) and
\* it stays on the top layer. The stage dones leave both allocators and the
\* stack of records as they are; the group done leaves next_unit and
\* max_units of both allocators as they are.
C25_DoneLeavesOneLevel ==
  [][(lastOp'.op \in {"done", "group_done"} /\ lastOp' # lastOp) =>
       /\ layer = "ShaderLayer" =>
            layer' = "RenderTargetsLayer" /\ lastOp'.cmd = "-"
       /\ layer = "RenderTargetsLayer" =>
            layer' = "Layers" /\ lastOp'.cmd = "-"
       /\ layer = "Layers" =>
            layer' = "Layers" /\ lastOp'.cmd = "finish"
       /\ layer = "GroupLayer" =>
            /\ layer' = parent /\ lastOp'.cmd = "-"
            /\ texture_units'.next_unit = texture_units.next_unit
            /\ texture_units'.max_units = texture_units.max_units
            /\ uniform_buffer_units'.next_unit = uniform_buffer_units.next_unit
            /\ uniform_buffer_units'.max_units = uniform_buffer_units.max_units
       /\ layer # "GroupLayer" =>
            /\ texture_units' = texture_units
            /\ uniform_buffer_units' = uniform_buffer_units
            /\ in_use_stack' = in_use_stack]_vars

C25_Witness ==
  /\ lastOp.op = "group_done" /\ lastOp.parent = "ShaderLayer"
  /\ layer = "ShaderLayer"
  /\ texture_units.next_unit >= 1

\* C26: the finish command is issued only from the top layer: never while
\* render targets or a shader are bound, never while a group scope is open.
C26_FinishOnlyAtTop ==
  lastOp.cmd = "finish" =>
    /\ lastOp.layer = "Layers"
    /\ ~lastOp.rtOpen /\ ~lastOp.shOpen
    /\ lastOp.parent = "-"

C26_Witness ==
  /\ lastOp.cmd = "finish" /\ lastOp.ret = "Ok" /\ finished
  /\ in_use_stack # <<>>
  /\ texture_units.next_unit >= 1

C28_SettersInEveryStage ==
  /\ layer \in {"Layers", "RenderTargetsLayer", "ShaderLayer", "GroupLayer"} =>
       HasCommons(layer)
  /\ (lastOp.op \in Setters /\ lastOp.ret = "Ok") => layer = lastOp.layer

(* ----------------------------------------------------------------------- *)
(* Creation and destruction of backend objects                             *)
(* ----------------------------------------------------------------------- *)

\* C29: after a successful Device::new_* the cache map of that kind holds the
\* scarce index of the new resource (and nothing else has changed in the
\* maps); when the backend creation fails, the error is returned and no map
\* is changed.
C29_NewTracksOrLeavesMaps ==
  [][(lastDev'.op = "new" /\ lastDev' # lastDev) =>
       /\ lastDev'.ret = "Ok" =>
            /\ lastDev'.obj \in tracked'[lastDev'.what]
            /\ lastDev'.obj \notin tracked[lastDev'.what]
            /\ tracked' = [tracked EXCEPT ![lastDev'.what] = @ \cup {lastDev'.obj}]
       /\ lastDev'.ret = "Err(backend)" =>
            /\ tracked' = tracked
            /\ okind' = okind]_vars

C29_Witness ==
  /\ lastDev.op = "new" /\ lastDev.ret = "Ok" /\ lastDev.what = "swap_chain"
  /\ lastDev.obj \in tracked["swap_chain"]
  /\ tracked["vertex_array"] # {}

\* an object handed to the caller: by a successful new_* or by
\* SwapChain::render_targets
Obtained(o) == tracks[o] >= 1 \/ o \in fromSwapChain

\* C30: once the wrapper of an obtained backend object and the Device have
\* both been torn down, the object has been passed to its destructor at least
\* once.
C30_DestroyedOnceBothGone ==
  \A o \in Objs :
    (Obtained(o) /\ wrapper[o] = "dropped" /\ ~cacheAlive) => destroys[o] >= 1

(* ======================================================================= *)
(* Cached<T>: the documented return value, is_invalid and invalidate       *)
(* (checked under SpecCached)                                              *)
(* ======================================================================= *)

\* C33 as stated (the doc comment of Cached::set_if_invalid): when the cache
\* already holds a value equal to the argument, set_if_invalid returns true.
C33_StillValidReturnsTrue ==
  (Len(hist) >= 1 /\ IsSetIfInvalid(LastOp) /\ LastOp.pre = Some(LastOp.value))
    => LastOp.ret = "Ok(true)"

\* C34: is_invalid(v) is true exactly when nothing is cached or the cached
\* value differs from v; set_if_invalid(v, f) invokes f exactly when
\* is_invalid(v) held just before the call; and a set_if_invalid(v, f) that
\* directly follows invalidate() invokes f, whatever v is.
C34_InvalidExactlyWhenApplied ==
  /\ \A v \in Values :
       is_invalid(cached, v) <=> (cached = None \/ cached # Some(v))
  /\ (Len(hist) >= 1 /\ IsSetIfInvalid(LastOp)) =>
       (LastOp.called <=> is_invalid(LastOp.pre, LastOp.value))
  /\ (Len(hist) >= 2 /\ First.op = "invalidate" /\ IsSetIfInvalid(LastOp)) =>
       (LastOp.pre = None /\ LastOp.called)

\* invalidate() on a cache holding v, then set_if_invalid(v, f): f is invoked
C34_Witness ==
  /\ Len(hist) >= 2
  /\ First.op = "invalidate"
  /\ IsSetIfInvalid(LastOp)
  /\ First.pre = Some(LastOp.value)
  /\ LastOp.called

(* ======================================================================= *)
(* Device queries: a failing backend call  (checked under SpecQueries)     *)
(* ======================================================================= *)

\* a step that runs one Device query
IsQueryStep == lastDev' # lastDev /\ lastDev'.op = "query"

\* C35: when the backend call of a Device query fails, the error is returned
\* and nothing is stored (every stored value is as before, the queried one is
\* still absent); the next read of that query that gets the lock calls the
\* backend again.
C35_FailedQueryStoresNothing ==
  [][/\ (IsQueryStep /\ lastDev'.ret = "Err(backend)") =>
          /\ lastDev'.called /\ lastDev'.value = None
          /\ qcache' = qcache
          /\ qcache'[lastDev'.what] = None
     /\ (/\ IsQueryStep
         /\ lastDev.op = "query" /\ lastDev.ret = "Err(backend)"
         /\ lastDev'.what = lastDev.what
         /\ lastDev'.ret # "Err(Poisoned)") => lastDev'.called]_vars

\* a query has just failed in the backend while another one is stored
C35_Witness ==
  /\ lastDev.op = "query" /\ lastDev.ret = "Err(backend)" /\ lastDev.called
  /\ qcache[lastDev.what] = None
  /\ \E q \in Queries : qcache[q] # None

(* ======================================================================= *)
(* Layers::done and what follows it  (checked under Spec)                  *)
(* ======================================================================= *)

\* C36 as stated: once done() at the top stage has issued the finish command
\* with success, the session issues no further backend command on that
\* command buffer: no setter, no bind, no draw and no second finish.
C36_NothingAfterFinish ==
  [][finished => (lastOp' = lastOp \/ lastOp'.cmd = "-")]_vars

(* ======================================================================= *)
(* The two unit pools of a session  (checked under Spec)                   *)
(* ======================================================================= *)

\* a step that runs GroupLayer::texture / GroupLayer::uniform_buffer
IsTextureStep == lastOp' # lastOp /\ lastOp'.op = "texture"
IsUniformBufferStep == lastOp' # lastOp /\ lastOp'.op = "uniform_buffer"

\* C32: the texture pool and the uniform-buffer pool are independent.
\* texture() leaves the uniform-buffer allocator and the uniform_buffers list
\* as they were and fails with NoMoreUnits exactly when the texture pool is
\* exhausted, whatever the state of the other pool; uniform_buffer() likewise
\* with the roles exchanged.
C32_PoolsIndependent ==
  [][/\ IsTextureStep =>
          /\ uniform_buffer_units' = uniform_buffer_units
          /\ in_use'.uniform_buffers = in_use.uniform_buffers
          /\ (lastOp'.ret = "Err(NoMoreUnits)" <=> Exhausted(texture_units))
     /\ IsUniformBufferStep =>
          /\ texture_units' = texture_units
          /\ in_use'.textures = in_use.textures
          /\ (lastOp'.ret = "Err(NoMoreUnits)" <=> Exhausted(uniform_buffer_units))]_vars

\* a uniform buffer has been bound while the texture pool is exhausted
C32_Witness ==
  /\ lastOp.op = "uniform_buffer" /\ lastOp.ret = "Ok"
  /\ Exhausted(texture_units)
  /\ Len(in_use.textures) >= 1
  /\ Len(in_use.uniform_buffers) >= 1

(* ======================================================================= *)
(* The recycled in-use records  (checked under Spec)                       *)
(* ======================================================================= *)

\* every record of the stack has an empty textures list and an empty
\* uniform_buffers list
AllEmptyRecords(stack) ==
  \A k \in 1..Len(stack) :
    stack[k].textures = <<>> /\ stack[k].uniform_buffers = <<>>

\* C40: every in-use record on the recycling stack (in_use_stack of the core
\* layers, unused_stack of the Layer builder) has empty textures and
\* uniform_buffers lists, so a group scope that has just been opened starts
\* with an empty record.
C40_RecycledRecordsEmpty ==
  /\ AllEmptyRecords(in_use_stack)
  /\ AllEmptyRecords(unused_stack)
  /\ lastOp.op = "group" =>
       in_use.textures = <<>> /\ in_use.uniform_buffers = <<>>

\* a scope has been opened after an earlier one bound a texture and a
\* uniform buffer and was closed
C40_Witness ==
  /\ lastOp.op = "group"
  /\ layer = "GroupLayer"
  /\ texture_units.next_unit >= 1
  /\ uniform_buffer_units.next_unit >= 1

\* the same for Layer<B, T>, whose in_use_stack holds the records of the
\* enclosing scopes and whose unused_stack holds the recycled ones
\* (checked under SpecLayer)
LayerRecycledRecordsEmpty ==
  /\ AllEmptyRecords(unused_stack)
  /\ lastOp.op = "group" =>
       in_use.textures = <<>> /\ in_use.uniform_buffers = <<>>

(* ======================================================================= *)
(* Invariants of the unit pools in a session  (checked under SpecAlloc)    *)
(* ======================================================================= *)

\* the units of the idle map of a pool
IdleUnits(U) == DOMAIN U.idle_units

\* next_unit within its range; every idle unit was handed out before and is
\* not held; held and idle units together fit in the pool
PoolWithinBounds(U, held) ==
  /\ 0 <= U.next_unit /\ U.next_unit <= U.max_units
  /\ \A u \in IdleUnits(U) : u < U.next_unit /\ u \notin UnitsOf(held)
  /\ Len(held) + Cardinality(IdleUnits(U)) <= U.max_units

\* C38: in every reachable state of a session's pools 0 <= next_unit <=
\* max_units and next_unit never decreases; every unit of the idle map is
\* smaller than next_unit and is held by no in-use record of an active scope,
\* so units held plus idle units never exceed max_units.
C38_PoolInvariants ==
  /\ [](/\ PoolWithinBounds(texture_units, HeldTextures)
        /\ PoolWithinBounds(uniform_buffer_units, HeldUniformBuffers))
  /\ [][/\ texture_units'.next_unit >= texture_units.next_unit
        /\ uniform_buffer_units'.next_unit >= uniform_buffer_units.next_unit]_vars

\* a full pool with a reused unit held next to a unit that is still idle
C38_Witness ==
  /\ texture_units.max_units >= 2
  /\ texture_units.next_unit = texture_units.max_units
  /\ IdleUnits(texture_units) # {}
  /\ \E k \in 1..Len(in_use.textures) :
       in_use.textures[k].current_scarce_index # None

(* ======================================================================= *)
(* VertexArray::view  (checked under SpecView)                             *)
(* ======================================================================= *)

\* C39 as stated: on a vertex array of n vertices view(..) gives (0, n),
\* view(a..b) gives (a, b - a), view(a..) gives (a, n - a), view(..b) gives
\* (0, b) and view(..=b) gives (0, b + 1) as (start_vertex, vertex_count),
\* always with instance_count = 1, and no call with a <= n (and a <= b)
\* underflows.
C39_ViewSelectsRange ==
  LET n == vertex_array.vertex_count
      a == view.start
      b == view.end
      is(s, c) == /\ ~view.panicked
                  /\ view.start_vertex = s /\ view.vertex_count = c
                  /\ view.instance_count = 1
  IN /\ view.range = ".." => is(0, n)
     /\ (view.range = "a..b" /\ a <= b) => is(a, b - a)
     /\ (view.range = "a.." /\ a <= n) => is(a, n - a)
     /\ view.range = "..b" => is(0, b)
     /\ view.range = "..=b" => is(0, b + 1)

(* ======================================================================= *)
(* Threads sharing one Device  (checked under SpecThreads and              *)
(* SpecThreadQueries)                                                      *)
(* ======================================================================= *)

\* every thread has returned from its call
AllReturned == \A t \in Threads : pc[t] = "idle"

\* the objects of a kind that were created and whose wrapper was not torn down
LiveOf(kind) == { o \in Objs : okind[o] = kind /\ wrapper[o] = "alive" }

\* at most one thread is inside a critical section, and it holds the mutex
MutualExclusion ==
  \A t \in Threads : pc[t] \in Critical => lock = t

\* C31 as stated: threads create and tear down resource wrappers of every kind
\* against one Device, every track and untrack under the cache lock; once all
\* of them have returned, each map of the cache holds exactly the created
\* objects whose wrapper was not torn down, and no backend object has been
\* destroyed twice.
C31_TrackedIsCreatedMinusTornDown ==
  /\ MutualExclusion
  /\ AllReturned => \A kind \in Kinds : tracked[kind] = LiveOf(kind)
  /\ \A o \in Objs : destroys[o] <= 1

\* the same for the kinds of wrapper whose Drop goes through the cache
CacheAwareTrackedExactly ==
  /\ MutualExclusion
  /\ AllReturned => \A kind \in CacheAwareKinds : tracked[kind] = LiveOf(kind)
  /\ \A o \in Objs : destroys[o] <= 1

\* C37: when several threads call the same Device query concurrently for the
\* first time, the backend call succeeds at most once per query (exactly once
\* as soon as a value is stored or returned), every thread that gets a value
\* gets the stored one, and a thread holds the cache lock from the check to
\* the store.
C37_QueryCalledOnceAcrossThreads ==
  /\ MutualExclusion
  /\ \A q \in Queries : qcalls[q] <= 1
  /\ \A q \in Queries : qcache[q] # None => qcalls[q] = 1
  /\ \A t \in Threads :
       (local[t].call = "query" /\ local[t].ret = "Ok") =>
         /\ qcalls[local[t].what] = 1
         /\ local[t].value = qcache[local[t].what]
  /\ \A t, u \in Threads :
       (/\ local[t].call = "query" /\ local[t].ret = "Ok"
        /\ local[u].call = "query" /\ local[u].ret = "Ok"
        /\ local[t].what = local[u].what) => local[t].value = local[u].value

\* two threads called the same query while nothing was stored: one made the
\* backend call, the other waited for the mutex and was given the stored value
C37_Witness ==
  \E t, u \in Threads :
    /\ t # u
    /\ local[t].call = "query" /\ local[t].ret = "Ok" /\ local[t].seen = None
    /\ local[u].call = "query" /\ local[u].ret = "Ok" /\ local[u].seen # None
    /\ local[t].what = local[u].what
    /\ local[u].first /\ local[u].waited

=============================================================================
